---- MODULE Spec2Model ----
(***************************************************************************)
(* Verification model of flowdesk-app: the account store and its promise   *)
(* queue (src/src/accounts.ts), the browser context registry               *)
(* (BrowserManager, src/src/check/health.ts), the login runs of both       *)
(* platforms (src/unnamed/part_001) and the health probe.                  *)
(***************************************************************************)
EXTENDS Integers, Sequences, FiniteSets, TLC

(***************************************************************************)
(* Bounds of the model.                                                    *)
(***************************************************************************)
NumCallers == 2
MaxFaults == 1
MaxClock == 1
NumContexts == 3
NumRuns == 2

VARIABLES
    accountsFile,   \* what the path ACCOUNTS_FILE holds
    tmpFile,        \* what the path ACCOUNTS_FILE.tmp holds
    ops,            \* every operation chained on saveQueue so far, in enqueue order
    saveQueue,      \* index in ops of the operation whose tail promise saveQueue is (0: the initial resolved promise)
    callerPc,       \* position of each store caller
    callerArg,      \* the partial passed to upsertAccount by each caller
    callerRet,      \* the record a settled upsertAccount call returned
    concurrent,     \* history: no call was started after another call had completed
    faults,         \* number of file-system failures injected so far
    crashed,        \* the process has crashed
    clock,          \* the wall clock read by new Date()
    contexts,       \* BrowserManager.contexts: the Map's entries, in insertion order
    ctxState,       \* each browser context: "none" (not launched), "open" or "closed"
    regKey,         \* the key each context's registry close listener deletes
    latest,         \* history: the context most recently registered under each key
    closeAllPc,     \* position of the closeAll call
    iterPos,        \* closeAll: number of Map entries its iterator has passed
    closing,        \* closeAll: the context whose close() it awaits (0: none)
    closeLog,       \* history of the closeAll call in progress: contexts tracked at the call, contexts it tried to close
    run,            \* the loginFlipkart, loginShopsy and checkAccountHealth calls
    pagesOpen,      \* whether the first page of each context is open
    activeContexts, \* the activeContexts Map of the flipkart login module: accountId -> context (0: no entry)
    cookieFile,     \* whether the cookie file of (accountId, platform) has been written
    backup,         \* whether the encrypted profile of (accountId, platform) has been written
    profileDir,     \* whether the persistent profile directory of (accountId, platform) exists
    otp,            \* the one-time-passcode stage of a loginFlipkart call
    cloud,          \* the replication layer: pushAccounts calls in flight and the pullSyncData call
    call,           \* the store call made last in a sequence of calls, with the accounts it found
    vault,          \* the profile vault: passphrase, profile directory, backup file, call in progress
    jar,            \* the cookie functions: the browser's cookie jar, the objects in memory, the call in progress
    fp,             \* the generateFingerprint calls made, with their loop state
    sweep,          \* a batch health sweep: accounts listed, position, results, summary
    check,          \* the logged-in check of a login call: the race of its signals and what follows
    probe           \* the live-session check of checkAccountHealth: the account asked about, the answer

storeVars == <<accountsFile, tmpFile, ops, saveQueue, callerPc, callerArg, callerRet,
               concurrent, faults, crashed, clock>>

regVars == <<contexts, ctxState, regKey, latest, closeAllPc, iterPos, closing, closeLog>>

loginVars == <<run, pagesOpen, activeContexts, cookieFile, backup, profileDir>>

pureVars == <<jar, fp, sweep, check, probe>>

auxVars == <<otp, cloud, call, vault, pureVars>>

vars == <<storeVars, regVars, loginVars, auxVars>>

(***************************************************************************)
(* Strings of account ids.  toLowerCase() and trim() are modelled on the   *)
(* spellings the model draws ids from.                                     *)
(***************************************************************************)
IdSpellings == {"a", "A", "b"}
StoreIds == {"a", "b"}

ToLowerCase(s) == IF s = "A" THEN "a" ELSE IF s = "B" THEN "b"
                  ELSE IF s = " A" THEN " a" ELSE s

Trim(s) == IF s = " a" THEN "a" ELSE IF s = " A" THEN "A" ELSE s

NormalizeId(s) == Trim(ToLowerCase(s))

Omitted == "omitted"
Identifiers == {"p1"}

(***************************************************************************)
(* Documents.  A file is absent, a complete document (keyed shape, legacy  *)
(* bare list, or an object without the accounts key) or a partially        *)
(* written one.                                                            *)
(***************************************************************************)
Absent == [kind |-> "absent", accounts |-> <<>>]
Partial == [kind |-> "partial", accounts |-> <<>>]
Doc(accts) == [kind |-> "doc", accounts |-> accts]

IsValidDocument(f) == f.kind = "doc"

\* data.accounts.findIndex(a => a.id.toLowerCase() === id); 0 when none
FindIndex(accts, id) ==
    IF \E i \in 1..Len(accts) : ToLowerCase(accts[i].id) = id
    THEN CHOOSE i \in 1..Len(accts) :
            /\ ToLowerCase(accts[i].id) = id
            /\ \A j \in 1..(i - 1) : ToLowerCase(accts[j].id) # id
    ELSE 0

\* partial.status, Omitted when the partial has no status key
PartialStatus(partial) == IF "status" \in DOMAIN partial THEN partial.status ELSE Omitted

\* {...existing, ...account, updatedAt: now}
MergeExisting(existing, partial, now) ==
    [existing EXCEPT !.id = partial.id,
                     !.identifier = IF partial.identifier = Omitted THEN @ ELSE partial.identifier,
                     !.status = IF PartialStatus(partial) = Omitted THEN @ ELSE PartialStatus(partial),
                     !.updatedAt = now]

\* a timestamp field of the partial, spread over the default when the partial has it
PartialStamp(partial, field, now) == IF field \in DOMAIN partial THEN partial[field] ELSE now

\* {loginType, identifier: '', status: 'New', createdAt, updatedAt, ...account, id}
NewAccount(partial, now) ==
    [id |-> NormalizeId(partial.id),
     identifier |-> IF partial.identifier = Omitted THEN "" ELSE partial.identifier,
     status |-> IF PartialStatus(partial) = Omitted THEN "New" ELSE PartialStatus(partial),
     errorCode |-> Omitted,
     lastLoginAt |-> 0,
     lastValidateAt |-> 0,
     createdAt |-> PartialStamp(partial, "createdAt", now),
     updatedAt |-> PartialStamp(partial, "updatedAt", now)]

\* the document upsertAccount hands to saveAccounts
UpsertData(accts, partial, now) ==
    LET id == NormalizeId(partial.id)
        existingIndex == FindIndex(accts, id)
    IN  IF existingIndex >= 1
        THEN [accts EXCEPT ![existingIndex] = MergeExisting(accts[existingIndex], partial, now)]
        ELSE Append(accts, NewAccount(partial, now))

\* the record upsertAccount returns
UpsertReturn(accts, partial, now) ==
    LET id == NormalizeId(partial.id)
        existingIndex == FindIndex(accts, id)
    IN  IF existingIndex >= 1
        THEN MergeExisting(accts[existingIndex], partial, now)
        ELSE NewAccount(partial, now)

(***************************************************************************)
(* The promise chain.  Every loadAccounts and saveAccounts call appends an *)
(* operation chained on the promise saveQueue held at that moment, and     *)
(* stores its own tail promise in saveQueue.  The tail of an operation is  *)
(* always fulfilled once the operation has settled: loadAccounts chains    *)
(* then(() => {}, () => {}) and saveAccounts chains catch(...).            *)
(***************************************************************************)
Callers == 1..NumCallers

\* new Date(): the clock has advanced since the last reading, or not
ClockReadings == {clock, IF clock < MaxClock THEN clock + 1 ELSE clock}

Settled(i) == ops[i].st \in {"ok", "failed"}

\* a chain on the operation's own promise: a rejection passes down the chain
TailFulfilledOnlyOnSuccess(prev) == IF prev = 0 THEN TRUE ELSE ops[prev].st = "ok"

\* the promise an operation is chained on is fulfilled
TailFulfilled(prev) == IF prev = 0 THEN TRUE ELSE Settled(prev)

\* a loadAccounts that hands out saveQueue.then(operation) without storing its tail
ChainedSaveQueueNotStored(old, new) == old

\* saveQueue = result.then(...) / saveQueue = saveQueue.then(operation)...
ChainedSaveQueue(old, new) == new

NewOp(kind, c, data) ==
    [kind |-> kind, caller |-> c, prev |-> saveQueue, st |-> "queued",
     step |-> "none", data |-> data, pushed |-> FALSE]

Enqueue(kind, c, data) ==
    /\ ops' = Append(ops, NewOp(kind, c, data))
    /\ saveQueue' = ChainedSaveQueue(saveQueue, Len(ops) + 1)

Running == {i \in 1..Len(ops) : ops[i].st = "running"}

(***************************************************************************)
(* upsertAccount, first segment: the synchronous call of loadAccounts.     *)
(***************************************************************************)
CallUpsert(c) ==
    /\ ~crashed
    /\ callerPc[c] = "idle"
    /\ \A d \in 1..(c - 1) : callerPc[d] # "idle"
    /\ \E id \in StoreIds, v \in Identifiers \cup {Omitted} :
          callerArg' = [callerArg EXCEPT ![c] = [id |-> id, identifier |-> v]]
    /\ Enqueue("load", c, <<>>)
    /\ callerPc' = [callerPc EXCEPT ![c] = "awaitLoad"]
    /\ concurrent' = (concurrent /\ \A d \in Callers : callerPc[d] \notin {"done", "rejected"})
    /\ UNCHANGED <<accountsFile, tmpFile, callerRet, faults, crashed, clock>>

\* saveQueue.then(operation): the body starts once the promise it is chained on is fulfilled
StartBody(i) ==
    /\ ~crashed
    /\ ops[i].st = "queued"
    /\ TailFulfilled(ops[i].prev)
    /\ ops' = [ops EXCEPT ![i].st = "running",
                          ![i].step = IF ops[i].kind = "load" THEN "pathExists" ELSE "writeTmpOpen"]
    /\ UNCHANGED <<accountsFile, tmpFile, saveQueue, callerPc, callerArg, callerRet,
                   concurrent, faults, crashed, clock>>

(***************************************************************************)
(* Settling of a loadAccounts operation.  The awaiting upsertAccount       *)
(* continues in the same microtask burst: it merges the record and calls   *)
(* saveAccounts, which chains the save operation, before any further I/O   *)
(* completes.                                                              *)
(***************************************************************************)
\* a loadAccounts call made on its own (a listing): the caller only receives the document
ReadFulfilled(i) ==
    /\ ops' = [ops EXCEPT ![i].st = "ok", ![i].step = "none", ![i].data = <<>>]
    /\ callerPc' = [callerPc EXCEPT ![ops[i].caller] = "read"]
    /\ UNCHANGED <<saveQueue, callerRet, clock>>

LoadFulfilled(i, accts) ==
    IF callerPc[ops[i].caller] = "awaitRead"
    THEN ReadFulfilled(i)
    ELSE
    \E now \in ClockReadings :
        LET c == ops[i].caller
            data == UpsertData(accts, callerArg[c], now)
            settledOps == [ops EXCEPT ![i].st = "ok", ![i].step = "none", ![i].data = <<>>]
        IN  /\ clock' = now
            /\ ops' = Append(settledOps,
                             [kind |-> "save", caller |-> c, prev |-> saveQueue, st |-> "queued",
                              step |-> "none", data |-> data, pushed |-> FALSE])
            /\ saveQueue' = ChainedSaveQueue(saveQueue, Len(ops) + 1)
            /\ callerRet' = [callerRet EXCEPT ![c] = UpsertReturn(accts, callerArg[c], now)]
            /\ callerPc' = [callerPc EXCEPT ![c] = "awaitSave"]

LoadRejected(i) ==
    /\ ops' = [ops EXCEPT ![i].st = "failed", ![i].step = "none", ![i].data = <<>>]
    /\ callerPc' = [callerPc EXCEPT ![ops[i].caller] = "rejected"]
    /\ UNCHANGED <<saveQueue, callerRet, clock>>

\* await fs.pathExists(ACCOUNTS_FILE)
LoadPathExists(i) ==
    /\ ~crashed
    /\ ops[i].st = "running" /\ ops[i].step = "pathExists"
    /\ ops' = [ops EXCEPT ![i].step = IF accountsFile.kind = "absent" THEN "initOpen" ELSE "readJSON"]
    /\ UNCHANGED <<accountsFile, tmpFile, saveQueue, callerPc, callerArg, callerRet,
                   concurrent, faults, crashed, clock>>

\* await fs.readJSON(ACCOUNTS_FILE) and the branches on its shape
LoadReadJSON(i) ==
    /\ ~crashed
    /\ ops[i].st = "running" /\ ops[i].step = "readJSON"
    /\ CASE accountsFile.kind = "legacy" ->
                /\ ops' = [ops EXCEPT ![i].step = "migrateOpen", ![i].data = accountsFile.accounts]
                /\ UNCHANGED <<saveQueue, callerPc, callerRet, clock>>
         [] accountsFile.kind = "noAccounts" -> LoadFulfilled(i, <<>>)
         [] accountsFile.kind = "doc" -> LoadFulfilled(i, accountsFile.accounts)
         [] OTHER -> LoadRejected(i)
    /\ UNCHANGED <<accountsFile, tmpFile, callerArg, concurrent, faults, crashed>>

\* fs.writeJSON(ACCOUNTS_FILE, ...): the file is opened for writing, which truncates it
LoadWriteOpen(i) ==
    /\ ~crashed
    /\ ops[i].st = "running" /\ ops[i].step \in {"initOpen", "migrateOpen"}
    /\ accountsFile' = Partial
    /\ ops' = [ops EXCEPT ![i].step = IF ops[i].step = "initOpen" THEN "initWrite" ELSE "migrateWrite"]
    /\ UNCHANGED <<tmpFile, saveQueue, callerPc, callerArg, callerRet,
                   concurrent, faults, crashed, clock>>

\* fs.writeJSON(ACCOUNTS_FILE, ...): the content is written and the call resolves
LoadWriteFinish(i) ==
    /\ ~crashed
    /\ ops[i].st = "running" /\ ops[i].step \in {"initWrite", "migrateWrite"}
    /\ LET accts == IF ops[i].step = "initWrite" THEN <<>> ELSE ops[i].data
       IN  /\ accountsFile' = Doc(accts)
           /\ LoadFulfilled(i, accts)
    /\ UNCHANGED <<tmpFile, callerArg, concurrent, faults, crashed>>

(***************************************************************************)
(* The body of saveAccounts: writeJSON to the temporary file, then         *)
(* fs.move(tmp, ACCOUNTS_FILE, {overwrite: true}), which removes the       *)
(* destination and renames the temporary file onto it.                     *)
(***************************************************************************)
SaveWriteTmpOpen(i) ==
    /\ ~crashed
    /\ ops[i].st = "running" /\ ops[i].step = "writeTmpOpen"
    /\ tmpFile' = Partial
    /\ ops' = [ops EXCEPT ![i].step = "writeTmp"]
    /\ UNCHANGED <<accountsFile, saveQueue, callerPc, callerArg, callerRet,
                   concurrent, faults, crashed, clock>>

SaveWriteTmpFinish(i) ==
    /\ ~crashed
    /\ ops[i].st = "running" /\ ops[i].step = "writeTmp"
    /\ tmpFile' = Doc(ops[i].data)
    /\ ops' = [ops EXCEPT ![i].step = "moveRemove"]
    /\ UNCHANGED <<accountsFile, saveQueue, callerPc, callerArg, callerRet,
                   concurrent, faults, crashed, clock>>

SaveMoveRemove(i) ==
    /\ ~crashed
    /\ ops[i].st = "running" /\ ops[i].step = "moveRemove"
    /\ accountsFile' = Absent
    /\ ops' = [ops EXCEPT ![i].step = "moveRename"]
    /\ UNCHANGED <<tmpFile, saveQueue, callerPc, callerArg, callerRet,
                   concurrent, faults, crashed, clock>>

\* the rename completes; then(() => { pushAccounts(); }) fires and the caller resumes
SaveMoveRename(i) ==
    /\ ~crashed
    /\ ops[i].st = "running" /\ ops[i].step = "moveRename"
    /\ accountsFile' = tmpFile
    /\ tmpFile' = Absent
    /\ ops' = [ops EXCEPT ![i].st = "ok", ![i].step = "none", ![i].data = <<>>, ![i].pushed = TRUE]
    /\ callerPc' = [callerPc EXCEPT ![ops[i].caller] = "done"]
    /\ UNCHANGED <<saveQueue, callerArg, callerRet, concurrent, faults, crashed, clock>>

(***************************************************************************)
(* A file-system call of the running body fails (StoreIOError).  A failed  *)
(* load rejects the caller; a failed save is logged by catch(...) and the  *)
(* promise saveAccounts returned is fulfilled all the same.                *)
(***************************************************************************)
FsFault(i) ==
    /\ ~crashed
    /\ faults < MaxFaults
    /\ ops[i].st = "running"
    /\ faults' = faults + 1
    /\ IF ops[i].kind = "load"
       THEN LoadRejected(i)
       ELSE /\ ops' = [ops EXCEPT ![i].st = "failed", ![i].step = "none", ![i].data = <<>>]
            /\ callerPc' = [callerPc EXCEPT ![ops[i].caller] = "done"]
            /\ UNCHANGED <<saveQueue, callerRet, clock>>
    /\ UNCHANGED <<accountsFile, tmpFile, callerArg, concurrent, crashed>>

\* the process dies between two file-system steps; what is on disk stays
Crash ==
    /\ ~crashed
    /\ crashed' = TRUE
    /\ UNCHANGED <<accountsFile, tmpFile, ops, saveQueue, callerPc, callerArg, callerRet,
                   concurrent, faults, clock>>

InitialFiles ==
    {Absent, Doc(<<>>), [kind |-> "legacy", accounts |-> <<>>], [kind |-> "noAccounts", accounts |-> <<>>]}

NoArg == [id |-> "", identifier |-> Omitted]
NoRecord == [id |-> ""]

StoreFrame == UNCHANGED <<regVars, loginVars, auxVars>>

\* no passcode stage, no replication call, no sequential call, no vault call
NoLog == [tracked |-> {}, attempted |-> {}]

PureIdle == jar = <<>> /\ fp = <<>> /\ sweep = <<>> /\ check = <<>> /\ probe = <<>>

AuxIdle == otp = <<>> /\ cloud = <<>> /\ call = <<>> /\ vault = <<>> /\ PureIdle

\* no login run, no probe
LoginIdle ==
    /\ run = <<>> /\ pagesOpen = <<>> /\ activeContexts = <<>>
    /\ cookieFile = <<>> /\ backup = <<>> /\ profileDir = <<>>

StoreInit ==
    /\ contexts = <<>> /\ ctxState = <<>> /\ regKey = <<>> /\ latest = <<>>
    /\ closeAllPc = "idle" /\ iterPos = 0 /\ closing = 0 /\ closeLog = NoLog
    /\ LoginIdle
    /\ AuxIdle
    /\ accountsFile \in InitialFiles
    /\ tmpFile = Absent
    /\ ops = <<>>
    /\ saveQueue = 0
    /\ callerPc = [c \in Callers |-> "idle"]
    /\ callerArg = [c \in Callers |-> NoArg]
    /\ callerRet = [c \in Callers |-> NoRecord]
    /\ concurrent = TRUE
    /\ faults = 0
    /\ crashed = FALSE
    /\ clock = 0

StoreNext ==
    \/ \E c \in Callers : CallUpsert(c) /\ StoreFrame
    \/ \E i \in 1..Len(ops) : StartBody(i) /\ StoreFrame
    \/ \E i \in 1..Len(ops) : LoadPathExists(i) /\ StoreFrame
    \/ \E i \in 1..Len(ops) : LoadReadJSON(i) /\ StoreFrame
    \/ \E i \in 1..Len(ops) : LoadWriteOpen(i) /\ StoreFrame
    \/ \E i \in 1..Len(ops) : LoadWriteFinish(i) /\ StoreFrame
    \/ \E i \in 1..Len(ops) : SaveWriteTmpOpen(i) /\ StoreFrame
    \/ \E i \in 1..Len(ops) : SaveWriteTmpFinish(i) /\ StoreFrame
    \/ \E i \in 1..Len(ops) : SaveMoveRemove(i) /\ StoreFrame
    \/ \E i \in 1..Len(ops) : SaveMoveRename(i) /\ StoreFrame
    \/ \E i \in 1..Len(ops) : FsFault(i) /\ StoreFrame
    \/ Crash /\ StoreFrame

SpecStore == StoreInit /\ [][StoreNext]_vars

\* a caller whose upsertAccount has returned lists the accounts: loadAccounts
\* chains its operation on saveQueue like every other call
CallLoadAccounts(c) ==
    /\ ~crashed
    /\ callerPc[c] = "done"
    /\ Enqueue("load", c, <<>>)
    /\ callerPc' = [callerPc EXCEPT ![c] = "awaitRead"]
    /\ UNCHANGED <<accountsFile, tmpFile, callerArg, callerRet, concurrent, faults, crashed, clock>>

StoreReadNext ==
    \/ StoreNext
    \/ \E c \in Callers : CallLoadAccounts(c) /\ StoreFrame

SpecStoreRead == StoreInit /\ [][StoreReadNext]_vars

(***************************************************************************)
(* Claims about the account store.                                         *)
(***************************************************************************)
\* what a loadAccounts issued now, with nothing else running, would return
LoadedAccounts(f) == IF f.kind \in {"doc", "legacy"} THEN f.accounts ELSE <<>>

AllCallsSettled == \A c \in Callers : callerPc[c] = "done"

AllOpsSucceeded == \A i \in 1..Len(ops) : ops[i].st = "ok"

DistinctIds == \A c, d \in Callers : c # d => NormalizeId(callerArg[c].id) # NormalizeId(callerArg[d].id)

HoldsRecordOf(accts, c) ==
    \E i \in 1..Len(accts) :
        /\ accts[i].id = NormalizeId(callerArg[c].id)
        /\ callerArg[c].identifier # Omitted => accts[i].identifier = callerArg[c].identifier

\* C1: upsertAccount calls for N distinct ids, all started before any has
\* completed, leave a store from which loadAccounts returns exactly N records,
\* one per id, each with the fields passed for that id.
C1_ConcurrentUpsertsAllStored ==
    (AllCallsSettled /\ AllOpsSucceeded /\ concurrent /\ DistinctIds /\ ~crashed)
        => /\ Len(LoadedAccounts(accountsFile)) = NumCallers
           /\ \A c \in Callers : HoldsRecordOf(LoadedAccounts(accountsFile), c)

\* C2: the file-access bodies of the queued store operations never overlap: a
\* body has started only if every operation enqueued before it has settled
\* (succeeded or failed), so bodies run one at a time in enqueue order.
C2_BodiesSerialized ==
    /\ Cardinality(Running) <= 1
    /\ \A i, j \in 1..Len(ops) : (i < j /\ ops[j].st # "queued") => Settled(i)

\* a body is running after the operation enqueued just before it has failed
C2_Witness ==
    \E i, j \in 1..Len(ops) :
        /\ j = i + 1
        /\ ops[i].st = "failed" /\ ops[j].st = "running" /\ ops[j].step # "none"

\* C29: when a file-system call inside the body of saveAccounts fails, the
\* upsertAccount call that issued the save is rejected: it does not complete
\* as if the record had been stored.
C29_SaveFailureRejectsCaller ==
    \A i \in 1..Len(ops) :
        (ops[i].kind = "save" /\ ops[i].st = "failed") => callerPc[ops[i].caller] = "rejected"

\* the record of caller c is in the document
HasRecordOf(accts, c) == FindIndex(accts, NormalizeId(callerArg[c].id)) >= 1

\* C30: a loadAccounts operation enqueued after a saveAccounts operation that
\* succeeded returns, when it is fulfilled, a document that holds the record
\* that save wrote.  The document a load returns is the one on disk at the
\* end of the step that fulfils it.
C30_LoadSeesEarlierSave ==
    [][\A i, j \in 1..Len(ops) :
        (/\ j < i
         /\ ops[j].kind = "save" /\ ops[j].st = "ok"
         /\ ops[i].kind = "load" /\ ops[i].st = "running" /\ ops'[i].st = "ok")
            => HasRecordOf(LoadedAccounts(accountsFile'), ops[j].caller)]_vars

\* C3: at every point in time, a crash between two file-system steps included,
\* the account document path holds no file or a complete document, never a
\* truncated or partially written one.
C3_DocumentNeverPartial == accountsFile.kind # "partial"

(***************************************************************************)
(* Strings that are compared by prefix are sequences of characters.        *)
(***************************************************************************)
StartsWith(str, prefix) ==
    /\ Len(prefix) <= Len(str)
    /\ SubSeq(str, 1, Len(prefix)) = prefix

Dash == <<"-">>
LoginStr == <<"l", "o", "g", "i", "n">>
HealthStr == <<"h", "e", "a", "l", "t", "h">>
PlatformStr(platform) ==
    IF platform = "flipkart" THEN <<"f", "l", "i", "p", "k", "a", "r", "t">>
    ELSE <<"s", "h", "o", "p", "s", "y">>

Platforms == {"flipkart", "shopsy"}
AccountIds == {"a"}

\* the characters of an account id
Chars(accountId) ==
    IF accountId = "a" THEN <<"a">>
    ELSE IF accountId = "ab" THEN <<"a", "b">>
    ELSE IF accountId = "A" THEN <<"A">>
    ELSE <<"b">>

\* The registry keys the program builds: <<"login", accountId, platform>> stands for
\* `${accountId}-${platform}-login`, <<"health", accountId, platform>> for
\* `${platform}-${accountId}-health`; KeyString is the string itself.
LoginKey(accountId, platform) == <<"login", accountId, platform>>
HealthKey(platform, accountId) == <<"health", accountId, platform>>

KeyString(k) ==
    IF k[1] = "login"
    THEN Chars(k[2]) \o Dash \o PlatformStr(k[3]) \o Dash \o LoginStr
    ELSE PlatformStr(k[3]) \o Dash \o Chars(k[2]) \o Dash \o HealthStr

\* `flipkart-${accountId}` and `shopsy-${accountId}`
ActivePrefix(platform, accountId) == PlatformStr(platform) \o Dash \o Chars(accountId)

RegKeys ==
    {LoginKey(a, p) : a \in AccountIds, p \in Platforms}
        \cup {HealthKey(p, a) : p \in Platforms, a \in AccountIds}

(***************************************************************************)
(* BrowserManager.  The Map is the sequence of its entries in insertion    *)
(* order, which is the order closeAll's iterator visits them in.           *)
(***************************************************************************)
KeyIndex(m, k) ==
    IF \E i \in 1..Len(m) : KeyString(m[i].key) = KeyString(k)
    THEN CHOOSE i \in 1..Len(m) : KeyString(m[i].key) = KeyString(k)
    ELSE 0

\* Map.prototype.set
MapSet(m, k, x) ==
    IF KeyIndex(m, k) > 0
    THEN [m EXCEPT ![KeyIndex(m, k)].ctx = x]
    ELSE Append(m, [key |-> k, ctx |-> x])

\* Map.prototype.delete
MapDelete(m, k) ==
    IF KeyIndex(m, k) > 0
    THEN SubSeq(m, 1, KeyIndex(m, k) - 1) \o SubSeq(m, KeyIndex(m, k) + 1, Len(m))
    ELSE m

\* a live Map iterator that has passed pos entries, after the entry of key k is deleted
IterAfterDelete(m, k, pos) ==
    IF KeyIndex(m, k) > 0 /\ KeyIndex(m, k) <= pos THEN pos - 1 ELSE pos

\* isActive(idPrefix)
IsActive(m, idPrefix) == \E i \in 1..Len(m) : StartsWith(KeyString(m[i].key), idPrefix)

\* context.on('close', () => { this.contexts.delete(id) })
CloseListener(m, k, x) == MapDelete(m, k)

ContextIds == 1..NumContexts

\* register(id, context), called with a context that has just been launched
Register(k, x) ==
    /\ ctxState[x] = "none"
    /\ ctxState' = [ctxState EXCEPT ![x] = "open"]
    /\ contexts' = MapSet(contexts, k, x)
    /\ regKey' = [regKey EXCEPT ![x] = k]
    /\ latest' = [latest EXCEPT ![k] = x]
    /\ UNCHANGED <<closeAllPc, iterPos, closing, closeLog>>

\* a context closes (its window is closed, or its owner closes it): the close event fires
ContextClosed(x) ==
    /\ ctxState[x] = "open"
    /\ x # closing
    /\ ctxState' = [ctxState EXCEPT ![x] = "closed"]
    /\ contexts' = CloseListener(contexts, regKey[x], x)
    /\ iterPos' = IF contexts' = contexts THEN iterPos
                  ELSE IterAfterDelete(contexts, regKey[x], iterPos)
    /\ UNCHANGED <<regKey, latest, closeAllPc, closing, closeLog>>

\* the loop of closeAll from one suspension to the next: the iterator's next
\* entry and the call of its context.close(), or, at the iterator's end,
\* this.contexts.clear() and the return
CloseAllAdvance(m, pos) ==
    IF pos < Len(m)
    THEN [contexts |-> m, closing |-> m[pos + 1].ctx, iterPos |-> pos + 1, pc |-> "awaitClose"]
    ELSE [contexts |-> <<>>, closing |-> 0, iterPos |-> 0, pc |-> "idle"]

Advanced(next) ==
    /\ contexts' = next.contexts
    /\ closing' = next.closing
    /\ iterPos' = next.iterPos
    /\ closeAllPc' = next.pc
    /\ closeLog' = IF next.pc = "idle" THEN NoLog
                   ELSE [closeLog EXCEPT !.attempted = @ \cup {next.closing}]

\* closeAll(): for (const [id, context] of this.contexts.entries()) up to the first await
CloseAllBegin ==
    /\ closeAllPc = "idle"
    /\ LET next == CloseAllAdvance(contexts, 0)
       IN  /\ contexts' = next.contexts
           /\ closing' = next.closing
           /\ iterPos' = next.iterPos
           /\ closeAllPc' = next.pc
           /\ closeLog' = IF next.pc = "idle" THEN NoLog
                          ELSE [tracked |-> {contexts[i].ctx : i \in 1..Len(contexts)},
                                attempted |-> {next.closing}]
    /\ UNCHANGED <<ctxState, regKey, latest>>

\* context.close() resolves: the context is closed and its close event has fired;
\* the loop goes on
CloseAllClosed ==
    /\ closeAllPc = "awaitClose"
    /\ ctxState' = [ctxState EXCEPT ![closing] = "closed"]
    /\ LET m == IF ctxState[closing] = "open"
                THEN CloseListener(contexts, regKey[closing], closing)
                ELSE contexts
           pos == IF m = contexts THEN iterPos
                  ELSE IterAfterDelete(contexts, regKey[closing], iterPos)
       IN  Advanced(CloseAllAdvance(m, pos))
    /\ UNCHANGED <<regKey, latest, faults>>

\* context.close() throws: caught and logged, the context stays as it was;
\* the loop goes on
CloseAllThrew ==
    /\ closeAllPc = "awaitClose"
    /\ faults < MaxFaults
    /\ faults' = faults + 1
    /\ Advanced(CloseAllAdvance(contexts, iterPos))
    /\ UNCHANGED <<ctxState, regKey, latest>>

StoreIdle ==
    /\ accountsFile = Doc(<<>>)
    /\ tmpFile = Absent
    /\ ops = <<>>
    /\ saveQueue = 0
    /\ callerPc = [c \in Callers |-> "idle"]
    /\ callerArg = [c \in Callers |-> NoArg]
    /\ callerRet = [c \in Callers |-> NoRecord]
    /\ concurrent = TRUE
    /\ faults = 0
    /\ crashed = FALSE
    /\ clock = 0

RegInit ==
    /\ StoreIdle
    /\ LoginIdle
    /\ AuxIdle
    /\ contexts = <<>>
    /\ ctxState = [x \in ContextIds |-> "none"]
    /\ regKey = [x \in ContextIds |-> <<>>]
    /\ latest = [k \in RegKeys |-> 0]
    /\ closeAllPc = "idle"
    /\ iterPos = 0
    /\ closing = 0
    /\ closeLog = NoLog

RegFrame == UNCHANGED <<accountsFile, tmpFile, ops, saveQueue, callerPc, callerArg, callerRet,
                        concurrent, crashed, clock, loginVars, auxVars>>

RegNext ==
    \/ \E k \in RegKeys, x \in ContextIds : Register(k, x) /\ UNCHANGED faults /\ RegFrame
    \/ \E x \in ContextIds : ContextClosed(x) /\ UNCHANGED faults /\ RegFrame
    \/ CloseAllBegin /\ UNCHANGED faults /\ RegFrame
    \/ CloseAllClosed /\ RegFrame
    \/ CloseAllThrew /\ RegFrame

SpecReg == RegInit /\ [][RegNext]_vars

(***************************************************************************)
(* Claims about the BrowserManager.                                        *)
(***************************************************************************)
\* C5: in every reachable state a key is in the registry if and only if the
\* context most recently registered under it is still open.
C5_KeyPresentIffLatestOpen ==
    \A k \in RegKeys :
        (KeyIndex(contexts, k) > 0) <=> (latest[k] # 0 /\ ctxState[latest[k]] = "open")

\* C24: when closeAll returns, every context that was tracked when it was
\* called has had its close() called by closeAll or is closed, a close() that
\* threw has not kept closeAll from going on to the entries behind it, and
\* the registry is empty.
C24_CloseAllClosesEveryTracked ==
    [][(closeAllPc = "awaitClose" /\ closeAllPc' = "idle") =>
          /\ contexts' = <<>>
          /\ \A x \in closeLog.tracked :
                x \in closeLog.attempted \/ ctxState'[x] = "closed"]_vars

(***************************************************************************)
(* Login runs and health probes.  Run r owns context r.  An action is one  *)
(* stretch of a call between two suspension points that other calls can    *)
(* observe; the page-only steps between launch and cookie extraction       *)
(* (cookie injection, navigation, logged-in check, form filling, passcode  *)
(* retrieval, wait for the logged-in signal) form one stretch.             *)
(***************************************************************************)
Runs == 1..NumRuns

IdleRun ==
    [pc |-> "idle", kind |-> "none", acct |-> "", platform |-> "", keepOpen |-> FALSE,
     cause |-> "none", thrown |-> "none", res |-> "none", msg |-> "none",
     data |-> <<>>, trail |-> <<>>, extClosed |-> FALSE]

Dirs == AccountIds \X Platforms

\* the stored account of an id, as getAccount / updateLastLogin / updateAccountStatus find it
StoredIndex(accts, accountId) == FindIndex(accts, NormalizeId(accountId))

\* updateLastLogin: the mutation of the found record
LastLoginRecord(rec, now) ==
    [rec EXCEPT !.lastLoginAt = now, !.lastValidateAt = now, !.status = "Healthy",
                !.updatedAt = now, !.errorCode = Omitted]

\* updateAccountStatus: the mutation of the found record
StatusRecord(rec, status, errorCode, now) ==
    IF status = "Healthy"
    THEN [rec EXCEPT !.status = status, !.updatedAt = now, !.lastValidateAt = now,
                     !.errorCode = Omitted]
    ELSE IF errorCode \notin {"", Omitted}
    THEN [rec EXCEPT !.status = status, !.updatedAt = now, !.errorCode = errorCode]
    ELSE [rec EXCEPT !.status = status, !.updatedAt = now]

\* err.message.includes('closed')
MessageIncludesClosed(cause) == cause = "closed"

\* existingContext.pages().length > 0 && !existingContext.pages()[0].isClosed()
FirstPageOpen(x) == ctxState[x] = "open" /\ pagesOpen[x]

\* a re-entry guard that looks only at the Map entry, not at the pages
ReusesExistingIgnoringPages(accountId) == activeContexts[accountId] # 0

\* activeContexts.has(accountId) and the tracked context still shows an open first page
ReusesExisting(accountId) ==
    /\ activeContexts[accountId] # 0
    /\ FirstPageOpen(activeContexts[accountId])

\* the close listeners of context x: the registry's, and for a flipkart login the module's own
ListenersRegistry(x) == CloseListener(contexts, regKey[x], x)
ListenersActive(x) ==
    IF run[x].kind = "flipkart"
    THEN [activeContexts EXCEPT ![run[x].acct] = 0]
    ELSE activeContexts

\* context x closes: its state, and what its close listeners do
CloseContext(x) ==
    /\ ctxState' = [ctxState EXCEPT ![x] = "closed"]
    /\ contexts' = IF ctxState[x] = "open" THEN ListenersRegistry(x) ELSE contexts
    /\ activeContexts' = IF ctxState[x] = "open" THEN ListenersActive(x) ELSE activeContexts

NoClose == UNCHANGED <<ctxState, contexts, activeContexts>>

\* the run enters its catch block with error `cause`
Caught(r, cause, trail) ==
    IF run[r].kind = "flipkart" /\ MessageIncludesClosed(cause)
    THEN [run[r] EXCEPT !.pc = "cancelClose", !.cause = cause, !.trail = trail]
    ELSE [run[r] EXCEPT !.pc = "errLoad", !.cause = cause, !.trail = trail]

Returned(r, res, msg) == [run[r] EXCEPT !.pc = "done", !.res = res, !.msg = msg, !.data = <<>>]

Threw(r, thrown) == [run[r] EXCEPT !.pc = "done", !.res = "threw", !.thrown = thrown, !.data = <<>>]

LoginFrame == UNCHANGED <<tmpFile, ops, saveQueue, callerPc, callerArg, callerRet, concurrent,
                          crashed, closeAllPc, iterPos, closing, closeLog, auxVars>>

\* runs are interchangeable: they are started in index order
MayStart(r) ==
    /\ run[r].pc = "idle"
    /\ \A q \in 1..(r - 1) : run[q].pc # "idle"

(***************************************************************************)
(* loginFlipkart, up to the launch: the re-entry guard.                    *)
(***************************************************************************)
StartFlipkart(r) ==
    /\ MayStart(r)
    /\ \E a \in AccountIds, keepOpen \in BOOLEAN :
        LET started == [run[r] EXCEPT !.kind = "flipkart", !.acct = a, !.platform = "flipkart",
                                      !.keepOpen = keepOpen]
        IN  IF ReusesExisting(a)
            THEN /\ run' = [run EXCEPT ![r] = [started EXCEPT !.pc = "done", !.res = "success",
                                                               !.msg = "Browser already open"]]
                 /\ UNCHANGED activeContexts
            ELSE /\ run' = [run EXCEPT ![r] = [started EXCEPT !.pc = "launching"]]
                 /\ activeContexts' = [activeContexts EXCEPT ![a] = 0]
    /\ UNCHANGED <<ctxState, pagesOpen, contexts, regKey, latest, accountsFile, cookieFile,
                   backup, profileDir, clock, faults>>
    /\ LoginFrame

\* loginShopsy, up to the launch: nothing is checked
StartShopsy(r) ==
    /\ MayStart(r)
    /\ \E a \in AccountIds :
        run' = [run EXCEPT ![r] = [@ EXCEPT !.kind = "shopsy", !.acct = a, !.platform = "shopsy",
                                            !.pc = "launching"]]
    /\ UNCHANGED <<ctxState, pagesOpen, contexts, regKey, latest, activeContexts, accountsFile,
                   cookieFile, backup, profileDir, clock, faults>>
    /\ LoginFrame

\* chromium.launchPersistentContext resolves; the context is tracked and registered
LoginLaunched(r) ==
    /\ run[r].pc = "launching"
    /\ run[r].kind \in {"flipkart", "shopsy"}
    /\ LET key == LoginKey(run[r].acct, run[r].platform)
       IN  /\ ctxState' = [ctxState EXCEPT ![r] = "open"]
           /\ pagesOpen' = [pagesOpen EXCEPT ![r] = TRUE]
           /\ profileDir' = [profileDir EXCEPT ![<<run[r].acct, run[r].platform>>] = TRUE]
           /\ activeContexts' = IF run[r].kind = "flipkart"
                                THEN [activeContexts EXCEPT ![run[r].acct] = r]
                                ELSE activeContexts
           /\ contexts' = MapSet(contexts, key, r)
           /\ regKey' = [regKey EXCEPT ![r] = key]
           /\ latest' = [latest EXCEPT ![key] = r]
    /\ run' = [run EXCEPT ![r].pc = "flow"]
    /\ UNCHANGED <<accountsFile, cookieFile, backup, clock, faults>>
    /\ LoginFrame

\* chromium.launchPersistentContext rejects: outside the try block, the call rejects
LoginLaunchFailed(r) ==
    /\ run[r].pc = "launching"
    /\ run[r].kind \in {"flipkart", "shopsy"}
    /\ faults < MaxFaults
    /\ faults' = faults + 1
    /\ run' = [run EXCEPT ![r] = Threw(r, "launch")]
    /\ UNCHANGED <<ctxState, pagesOpen, contexts, regKey, latest, activeContexts, accountsFile,
                   cookieFile, backup, profileDir, clock>>
    /\ LoginFrame

(***************************************************************************)
(* From the launch to the logged-in signal.  With the context closed the   *)
(* first page operation throws "... has been closed".                      *)
(***************************************************************************)
\* the logged-in check succeeds: if (!keepOpen) await context.close(); return success
FlowAlreadyLoggedIn(r) ==
    /\ run[r].pc = "flow" /\ run[r].kind = "flipkart"
    /\ ctxState[r] = "open"
    /\ IF run[r].keepOpen THEN NoClose ELSE CloseContext(r)
    /\ run' = [run EXCEPT ![r] = Returned(r, "success", "Already logged in")]
    /\ UNCHANGED <<pagesOpen, regKey, latest, accountsFile, cookieFile, backup, profileDir,
                   clock, faults>>
    /\ LoginFrame

\* the logged-in signal is seen after the identifier and the passcode were handled
FlowLoginDetected(r) ==
    /\ run[r].pc = "flow" /\ run[r].kind \in {"flipkart", "shopsy"}
    /\ ctxState[r] = "open"
    /\ run' = [run EXCEPT ![r].pc = "extract"]
    /\ UNCHANGED <<ctxState, pagesOpen, contexts, regKey, latest, activeContexts, accountsFile,
                   cookieFile, backup, profileDir, clock, faults>>
    /\ LoginFrame

\* The causes a step of this stretch can throw with.  Every page operation of a
\* closed context throws the closed-target error; loginShopsy starts with one
\* (context.newPage()), loginFlipkart swallows some and can still throw its own
\* errors (store read, configuration, passcode retrieval) afterwards.
FlowCauses(r) ==
    IF ctxState[r] = "open" THEN {"flow"}
    ELSE IF run[r].kind = "flipkart" THEN {"closed", "flow"}
    ELSE {"closed"}

FlowThrew(r) ==
    /\ run[r].pc = "flow" /\ run[r].kind \in {"flipkart", "shopsy"}
    /\ \E cause \in FlowCauses(r) :
        run' = [run EXCEPT ![r] = Caught(r, cause, run[r].trail)]
    /\ UNCHANGED <<ctxState, pagesOpen, contexts, regKey, latest, activeContexts, accountsFile,
                   cookieFile, backup, profileDir, clock, faults>>
    /\ LoginFrame

(***************************************************************************)
(* The settle wait and extractAndSaveCookies.                              *)
(***************************************************************************)
\* a login that tolerates every failure of extractAndSaveCookies
CookieFailureNeverRethrown(r) == FALSE

\* a failure of extractAndSaveCookies is rethrown only by loginFlipkart without keepOpen
CookieFailureRethrown(r) == run[r].kind = "flipkart" /\ ~run[r].keepOpen

ExtractSaved(r) ==
    /\ run[r].pc = "extract"
    /\ ctxState[r] = "open"
    /\ cookieFile' = [cookieFile EXCEPT ![<<run[r].acct, run[r].platform>>] = TRUE]
    /\ run' = [run EXCEPT ![r].pc = "closing", ![r].trail = Append(@, "cookies")]
    /\ UNCHANGED <<ctxState, pagesOpen, contexts, regKey, latest, activeContexts, accountsFile,
                   backup, profileDir, clock, faults>>
    /\ LoginFrame

\* no cookie was found, or the context was closed while its cookies were polled
ExtractFailed(r) ==
    /\ run[r].pc = "extract"
    /\ LET cause == IF ctxState[r] = "open" THEN "cookies" ELSE "closed"
           trail == Append(run[r].trail, "cookiesFailed")
       IN  run' = [run EXCEPT ![r] = IF CookieFailureRethrown(r)
                                     THEN Caught(r, cause, trail)
                                     ELSE [run[r] EXCEPT !.pc = "closing", !.trail = trail]]
    /\ UNCHANGED <<ctxState, pagesOpen, contexts, regKey, latest, activeContexts, accountsFile,
                   cookieFile, backup, profileDir, clock, faults>>
    /\ LoginFrame

\* the context was closed before the settle wait ended: page.waitForTimeout throws
SettleThrew(r) ==
    /\ run[r].pc = "extract"
    /\ ctxState[r] = "closed"
    /\ run' = [run EXCEPT ![r] = Caught(r, "closed", run[r].trail)]
    /\ UNCHANGED <<ctxState, pagesOpen, contexts, regKey, latest, activeContexts, accountsFile,
                   cookieFile, backup, profileDir, clock, faults>>
    /\ LoginFrame

(***************************************************************************)
(* await context.close(); await saveProfileToDisk(platform, accountId)     *)
(***************************************************************************)
FinalClose(r) ==
    /\ run[r].pc = "closing"
    /\ CloseContext(r)
    /\ run' = [run EXCEPT ![r].pc = "profile", ![r].trail = Append(@, "close")]
    /\ UNCHANGED <<pagesOpen, regKey, latest, accountsFile, cookieFile, backup, profileDir,
                   clock, faults>>
    /\ LoginFrame

FinalCloseThrew(r) ==
    /\ run[r].pc = "closing"
    /\ faults < MaxFaults
    /\ faults' = faults + 1
    /\ run' = [run EXCEPT ![r] = Caught(r, "close", run[r].trail)]
    /\ UNCHANGED <<ctxState, pagesOpen, contexts, regKey, latest, activeContexts, accountsFile,
                   cookieFile, backup, profileDir, clock>>
    /\ LoginFrame

ProfileSaved(r) ==
    /\ run[r].pc = "profile"
    /\ backup' = [backup EXCEPT ![<<run[r].acct, run[r].platform>>] = TRUE]
    /\ run' = [run EXCEPT ![r].pc = "lastLoginLoad", ![r].trail = Append(@, "profile")]
    /\ UNCHANGED <<ctxState, pagesOpen, contexts, regKey, latest, activeContexts, accountsFile,
                   cookieFile, profileDir, clock, faults>>
    /\ LoginFrame

\* saveProfileToDisk throws (vault locked, archive or write failure)
ProfileThrew(r) ==
    /\ run[r].pc = "profile"
    /\ run' = [run EXCEPT ![r] = Caught(r, "profile", run[r].trail)]
    /\ UNCHANGED <<ctxState, pagesOpen, contexts, regKey, latest, activeContexts, accountsFile,
                   cookieFile, backup, profileDir, clock, faults>>
    /\ LoginFrame

(***************************************************************************)
(* updateLastLogin(accountId): loadAccounts, mutate the record found,      *)
(* saveAccounts.  The load and the save are two queue entries, so another  *)
(* call's entries can run between them.  A rejected load rejects the       *)
(* call; a failed save is logged and the call still fulfils.               *)
(***************************************************************************)
LastLoginLoad(r) ==
    /\ run[r].pc = "lastLoginLoad"
    /\ IsValidDocument(accountsFile)
    /\ LET accts == accountsFile.accounts
           i == StoredIndex(accts, run[r].acct)
       IN  IF i = 0
           THEN /\ run' = [run EXCEPT ![r] = [Returned(r, "success", "Login completed")
                                                EXCEPT !.trail = Append(@, "noRecord")]]
                /\ UNCHANGED clock
           ELSE \E now \in ClockReadings :
                /\ clock' = now
                /\ run' = [run EXCEPT ![r].pc = "lastLoginSave",
                                      ![r].data = [accts EXCEPT ![i] = LastLoginRecord(@, now)]]
    /\ UNCHANGED <<ctxState, pagesOpen, contexts, regKey, latest, activeContexts, accountsFile,
                   cookieFile, backup, profileDir, faults>>
    /\ LoginFrame

LastLoginLoadRejected(r) ==
    /\ run[r].pc = "lastLoginLoad"
    /\ faults < MaxFaults
    /\ faults' = faults + 1
    /\ run' = [run EXCEPT ![r] = Caught(r, "store", run[r].trail)]
    /\ UNCHANGED <<ctxState, pagesOpen, contexts, regKey, latest, activeContexts, accountsFile,
                   cookieFile, backup, profileDir, clock>>
    /\ LoginFrame

LastLoginSave(r) ==
    /\ run[r].pc = "lastLoginSave"
    /\ accountsFile' = Doc(run[r].data)
    /\ run' = [run EXCEPT ![r].pc = "done", ![r].res = "success", ![r].msg = "Login completed",
                          ![r].trail = Append(@, "healthy")]
    /\ UNCHANGED <<ctxState, pagesOpen, contexts, regKey, latest, activeContexts, cookieFile,
                   backup, profileDir, clock, faults>>
    /\ LoginFrame

LastLoginSaveFailed(r) ==
    /\ run[r].pc = "lastLoginSave"
    /\ faults < MaxFaults
    /\ faults' = faults + 1
    /\ run' = [run EXCEPT ![r] = [Returned(r, "success", "Login completed")
                                    EXCEPT !.trail = Append(@, "saveFailed")]]
    /\ UNCHANGED <<ctxState, pagesOpen, contexts, regKey, latest, activeContexts, accountsFile,
                   cookieFile, backup, profileDir, clock>>
    /\ LoginFrame

(***************************************************************************)
(* The catch blocks.                                                       *)
(***************************************************************************)
\* loginFlipkart, closed-target error: try { await context.close() } catch {}; return cancelled
CancelClose(r) ==
    /\ run[r].pc = "cancelClose"
    /\ CloseContext(r)
    /\ run' = [run EXCEPT ![r] = Returned(r, "cancelled", "Browser closed by user")]
    /\ UNCHANGED <<pagesOpen, regKey, latest, accountsFile, cookieFile, backup, profileDir,
                   clock, faults>>
    /\ LoginFrame

\* await updateAccountStatus(accountId, 'Error', String(err)): the load
ErrLoad(r) ==
    /\ run[r].pc = "errLoad"
    /\ IsValidDocument(accountsFile)
    /\ LET accts == accountsFile.accounts
           i == StoredIndex(accts, run[r].acct)
       IN  IF i = 0
           THEN /\ run' = [run EXCEPT ![r].pc = "errClose", ![r].trail = Append(@, "noRecord")]
                /\ UNCHANGED clock
           ELSE \E now \in ClockReadings :
                /\ clock' = now
                /\ run' = [run EXCEPT ![r].pc = "errSave",
                                      ![r].data = [accts EXCEPT ![i] =
                                                     StatusRecord(@, "Error", run[r].cause, now)]]
    /\ UNCHANGED <<ctxState, pagesOpen, contexts, regKey, latest, activeContexts, accountsFile,
                   cookieFile, backup, profileDir, faults>>
    /\ LoginFrame

\* the load rejects inside the catch block: the call rejects with the store's
\* error before context.close() is reached
ErrLoadRejected(r) ==
    /\ run[r].pc = "errLoad"
    /\ faults < MaxFaults
    /\ faults' = faults + 1
    /\ run' = [run EXCEPT ![r] = Threw(r, "store")]
    /\ UNCHANGED <<ctxState, pagesOpen, contexts, regKey, latest, activeContexts, accountsFile,
                   cookieFile, backup, profileDir, clock>>
    /\ LoginFrame

ErrSave(r) ==
    /\ run[r].pc = "errSave"
    /\ accountsFile' = Doc(run[r].data)
    /\ run' = [run EXCEPT ![r].pc = "errClose", ![r].trail = Append(@, "error")]
    /\ UNCHANGED <<ctxState, pagesOpen, contexts, regKey, latest, activeContexts, cookieFile,
                   backup, profileDir, clock, faults>>
    /\ LoginFrame

ErrSaveFailed(r) ==
    /\ run[r].pc = "errSave"
    /\ faults < MaxFaults
    /\ faults' = faults + 1
    /\ run' = [run EXCEPT ![r].pc = "errClose", ![r].data = <<>>,
                          ![r].trail = Append(@, "saveFailed")]
    /\ UNCHANGED <<ctxState, pagesOpen, contexts, regKey, latest, activeContexts, accountsFile,
                   cookieFile, backup, profileDir, clock>>
    /\ LoginFrame

\* context.close() succeeds; throw err
ErrClose(r) ==
    /\ run[r].pc = "errClose"
    /\ CloseContext(r)
    /\ run' = [run EXCEPT ![r] = [Threw(r, run[r].cause) EXCEPT !.data = run[r].data]]
    /\ UNCHANGED <<pagesOpen, regKey, latest, accountsFile, cookieFile, backup, profileDir,
                   clock, faults>>
    /\ LoginFrame

\* context.close() throws: swallowed by loginFlipkart, thrown instead of err by loginShopsy
ErrCloseThrew(r) ==
    /\ run[r].pc = "errClose"
    /\ ctxState[r] = "open"
    /\ faults < MaxFaults
    /\ faults' = faults + 1
    /\ run' = [run EXCEPT ![r] = Threw(r, IF run[r].kind = "flipkart" THEN run[r].cause
                                          ELSE "close")]
    /\ UNCHANGED <<ctxState, pagesOpen, contexts, regKey, latest, activeContexts, accountsFile,
                   cookieFile, backup, profileDir, clock>>
    /\ LoginFrame

(***************************************************************************)
(* checkAccountHealth(platform, accountId)                                 *)
(***************************************************************************)
\* browsers.isActive(`flipkart-${accountId}`) || browsers.isActive(`shopsy-${accountId}`)
SessionActive(accountId) ==
    \/ IsActive(contexts, ActivePrefix("flipkart", accountId))
    \/ IsActive(contexts, ActivePrefix("shopsy", accountId))

StartHealth(r) ==
    /\ MayStart(r)
    /\ \E a \in AccountIds, platform \in Platforms :
        LET started == [run[r] EXCEPT !.kind = "health", !.acct = a, !.platform = platform]
        IN  run' = [run EXCEPT ![r] =
                      IF SessionActive(a)
                      THEN [started EXCEPT !.pc = "done", !.res = "Healthy",
                                           !.msg = "Browser session currently active"]
                      ELSE [started EXCEPT !.pc = "pathExists"]]
    /\ UNCHANGED <<ctxState, pagesOpen, contexts, regKey, latest, activeContexts, accountsFile,
                   cookieFile, backup, profileDir, clock, faults>>
    /\ LoginFrame

\* if (!await fs.pathExists(profilePath)) return MISSING_PROFILE
HealthPathExists(r) ==
    /\ run[r].pc = "pathExists"
    /\ run' = [run EXCEPT ![r] =
                 IF profileDir[<<run[r].acct, run[r].platform>>]
                 THEN [run[r] EXCEPT !.pc = "launching"]
                 ELSE Returned(r, "MISSING_PROFILE", "No local profile found")]
    /\ UNCHANGED <<ctxState, pagesOpen, contexts, regKey, latest, activeContexts, accountsFile,
                   cookieFile, backup, profileDir, clock, faults>>
    /\ LoginFrame

HealthLaunched(r) ==
    /\ run[r].pc = "launching" /\ run[r].kind = "health"
    /\ LET key == HealthKey(run[r].platform, run[r].acct)
       IN  /\ ctxState' = [ctxState EXCEPT ![r] = "open"]
           /\ pagesOpen' = [pagesOpen EXCEPT ![r] = TRUE]
           /\ contexts' = MapSet(contexts, key, r)
           /\ regKey' = [regKey EXCEPT ![r] = key]
           /\ latest' = [latest EXCEPT ![key] = r]
    /\ run' = [run EXCEPT ![r].pc = "probe"]
    /\ UNCHANGED <<activeContexts, accountsFile, cookieFile, backup, profileDir, clock, faults>>
    /\ LoginFrame

\* the launch throws inside the try block: context is undefined, return Error
HealthLaunchFailed(r) ==
    /\ run[r].pc = "launching" /\ run[r].kind = "health"
    /\ faults < MaxFaults
    /\ faults' = faults + 1
    /\ run' = [run EXCEPT ![r] = Returned(r, "Error", "Check failed")]
    /\ UNCHANGED <<ctxState, pagesOpen, contexts, regKey, latest, activeContexts, accountsFile,
                   cookieFile, backup, profileDir, clock>>
    /\ LoginFrame

\* the page was read; await context.close(); return the verdict
HealthVerdict(r) ==
    /\ run[r].pc = "probe"
    /\ ctxState[r] = "open"
    /\ CloseContext(r)
    /\ \E healthy \in BOOLEAN :
        run' = [run EXCEPT ![r] = IF healthy THEN Returned(r, "Healthy", "Session valid")
                                  ELSE Returned(r, "ActionNeeded", "Session may be expired")]
    /\ UNCHANGED <<pagesOpen, regKey, latest, accountsFile, cookieFile, backup, profileDir,
                   clock, faults>>
    /\ LoginFrame

\* a catch block that returns Error without closing the context
CaughtLeftOpen(r) == NoClose

\* if (context) await context.close().catch(() => { })
CaughtClose(r) == CloseContext(r)

\* a page operation throws: if (context) await context.close().catch(() => {}); return Error
HealthThrew(r) ==
    /\ run[r].pc = "probe"
    /\ CaughtClose(r)
    /\ run' = [run EXCEPT ![r] = Returned(r, "Error", "Check failed")]
    /\ UNCHANGED <<pagesOpen, regKey, latest, accountsFile, cookieFile, backup, profileDir,
                   clock, faults>>
    /\ LoginFrame

(***************************************************************************)
(* The operator.                                                           *)
(***************************************************************************)
\* whether the run of context x is between its launch and its own context.close()
InProgress(x) == run[x].pc \in {"flow", "extract"}

\* the browser window of context x is closed from outside
ExternalClose(x) ==
    /\ ctxState[x] = "open"
    /\ CloseContext(x)
    /\ pagesOpen' = [pagesOpen EXCEPT ![x] = FALSE]
    /\ run' = [run EXCEPT ![x].extClosed = InProgress(x)]
    /\ UNCHANGED <<regKey, latest, accountsFile, cookieFile, backup, profileDir, clock, faults>>
    /\ LoginFrame

\* every page of a context left open by a returned call is closed, the context lives on
PagesClosed(x) ==
    /\ ctxState[x] = "open"
    /\ run[x].pc = "done"
    /\ pagesOpen[x]
    /\ pagesOpen' = [pagesOpen EXCEPT ![x] = FALSE]
    /\ UNCHANGED <<run, ctxState, contexts, regKey, latest, activeContexts, accountsFile,
                   cookieFile, backup, profileDir, clock, faults>>
    /\ LoginFrame

\* the account as upsertAccount stored it before the first login
StoredAccount(accountId) == NewAccount([id |-> accountId, identifier |-> "p1"], 0)

LoginInit ==
    /\ AuxIdle
    /\ tmpFile = Absent
    /\ ops = <<>>
    /\ saveQueue = 0
    /\ callerPc = [c \in Callers |-> "idle"]
    /\ callerArg = [c \in Callers |-> NoArg]
    /\ callerRet = [c \in Callers |-> NoRecord]
    /\ concurrent = TRUE
    /\ crashed = FALSE
    /\ closeAllPc = "idle"
    /\ iterPos = 0
    /\ closing = 0
    /\ closeLog = NoLog
    /\ faults = 0
    /\ clock = 0
    /\ accountsFile \in {Doc(<<>>)} \cup {Doc(<<StoredAccount(a)>>) : a \in AccountIds}
    /\ contexts = <<>>
    /\ ctxState = [x \in Runs |-> "none"]
    /\ regKey = [x \in Runs |-> <<>>]
    /\ latest = [k \in RegKeys |-> 0]
    /\ run = [r \in Runs |-> IdleRun]
    /\ pagesOpen = [x \in Runs |-> FALSE]
    /\ activeContexts = [a \in AccountIds |-> 0]
    /\ cookieFile = [d \in Dirs |-> FALSE]
    /\ backup = [d \in Dirs |-> FALSE]
    /\ profileDir = [d \in Dirs |-> FALSE]

LoginNext ==
    \/ \E r \in Runs : StartShopsy(r)
    \/ \E r \in Runs : StartFlipkart(r)
    \/ \E r \in Runs : LoginLaunched(r)
    \/ \E r \in Runs : LoginLaunchFailed(r)
    \/ \E r \in Runs : FlowAlreadyLoggedIn(r)
    \/ \E r \in Runs : FlowLoginDetected(r)
    \/ \E r \in Runs : FlowThrew(r)
    \/ \E r \in Runs : ExtractSaved(r)
    \/ \E r \in Runs : ExtractFailed(r)
    \/ \E r \in Runs : SettleThrew(r)
    \/ \E r \in Runs : FinalClose(r)
    \/ \E r \in Runs : FinalCloseThrew(r)
    \/ \E r \in Runs : ProfileSaved(r)
    \/ \E r \in Runs : ProfileThrew(r)
    \/ \E r \in Runs : LastLoginLoad(r)
    \/ \E r \in Runs : LastLoginLoadRejected(r)
    \/ \E r \in Runs : LastLoginSave(r)
    \/ \E r \in Runs : LastLoginSaveFailed(r)
    \/ \E r \in Runs : CancelClose(r)
    \/ \E r \in Runs : ErrLoad(r)
    \/ \E r \in Runs : ErrLoadRejected(r)
    \/ \E r \in Runs : ErrSave(r)
    \/ \E r \in Runs : ErrSaveFailed(r)
    \/ \E r \in Runs : ErrClose(r)
    \/ \E r \in Runs : ErrCloseThrew(r)
    \/ \E r \in Runs : StartHealth(r)
    \/ \E r \in Runs : HealthPathExists(r)
    \/ \E r \in Runs : HealthLaunched(r)
    \/ \E r \in Runs : HealthLaunchFailed(r)
    \/ \E r \in Runs : HealthVerdict(r)
    \/ \E r \in Runs : HealthThrew(r)
    \/ \E x \in Runs : ExternalClose(x)
    \/ \E x \in Runs : PagesClosed(x)

SpecLogin == LoginInit /\ [][LoginNext]_vars

(***************************************************************************)
(* Claims about the login runs and the health probe.                       *)
(***************************************************************************)
LiveContexts(d) ==
    {x \in Runs : ctxState[x] = "open" /\ run[x].acct = d[1] /\ run[x].platform = d[2]}

\* C4: in every reachable state at most one open browser context is attached
\* to the profile directory of an (accountId, platform), whatever the
\* interleaving of loginFlipkart, loginShopsy and checkAccountHealth calls.
C4_OneLiveContextPerProfile == \A d \in Dirs : Cardinality(LiveContexts(d)) <= 1

\* a context launched by loginFlipkart or loginShopsy for the account is open
\* and is the registry's entry under its key
LoginSessionOpen(accountId) ==
    \E x \in Runs :
        /\ run[x].kind \in {"flipkart", "shopsy"}
        /\ run[x].acct = accountId
        /\ ctxState[x] = "open"
        /\ KeyIndex(contexts, regKey[x]) > 0
        /\ contexts[KeyIndex(contexts, regKey[x])].ctx = x

\* C6: a checkAccountHealth call that starts while a login session of its
\* account is registered and open, on either platform, returns Healthy at
\* once, without going on to launch a browser.
C6_HealthSkipsWhileLoginOpen ==
    [][\A r \in Runs :
        (run[r].pc = "idle" /\ run'[r].kind = "health" /\ LoginSessionOpen(run'[r].acct))
            => (run'[r].pc = "done" /\ run'[r].res = "Healthy" /\ ctxState' = ctxState)]_vars

FullFlowSuccess(r) ==
    /\ run[r].pc = "done"
    /\ run[r].res = "success"
    /\ run[r].msg = "Login completed"

\* the record of the run's account in the document the run handed to saveAccounts
WrittenRecord(r) == run[r].data[StoredIndex(run[r].data, run[r].acct)]

C27_SuccessFinalised ==
    \A r \in Runs :
        (/\ run[r].pc = "done" /\ run[r].res = "success"
         /\ run[r].msg \in {"Already logged in", "Login completed"}) =>
            /\ Len(run[r].trail) > 0
            /\ run[r].trail[Len(run[r].trail)] = "healthy"
            /\ WrittenRecord(r).status = "Healthy"
            /\ WrittenRecord(r).lastValidateAt = WrittenRecord(r).updatedAt

\* C37: a login run writes status Healthy only after its own cookie
\* extraction captured and saved cookies, with keepOpen or without.
C37_HealthyOnlyWithCookies ==
    \A r \in Runs :
        (\E n \in 1..Len(run[r].trail) : run[r].trail[n] = "healthy") =>
            (run[r].trail[1] = "cookies" /\ cookieFile[<<run[r].acct, run[r].platform>>])

EndedFailed(r) ==
    /\ run[r].pc = "done"
    /\ run[r].res = "threw"
    /\ run[r].cause # "none"

\* C8: a login run that ended Failed has closed its context, has thrown the
\* error that made it fail, and has written status Error with that error's
\* text as errorCode (when the account has a stored record).
C8_FailedRunRecordsClosesRethrows ==
    \A r \in Runs :
        EndedFailed(r) =>
            /\ ctxState[r] = "closed"
            /\ run[r].thrown = run[r].cause
            /\ Len(run[r].trail) > 0
            /\ run[r].trail[Len(run[r].trail)] \in {"error", "noRecord"}
            /\ run[r].trail[Len(run[r].trail)] = "error" =>
                /\ WrittenRecord(r).status = "Error"
                /\ WrittenRecord(r).errorCode = run[r].cause

Events(r) == {run[r].trail[i] : i \in 1..Len(run[r].trail)}

\* C9: a login run of either platform whose browser was closed from outside
\* while it was in progress returns cancelled, and has written neither Error
\* nor Healthy to the account store (runs ended by a failure of the store or
\* of context.close() are not counted).
C9_ExternalCloseCancels ==
    \A r \in Runs :
        (run[r].pc = "done" /\ run[r].extClosed /\ run[r].thrown \notin {"store", "close"}) =>
            /\ run[r].res = "cancelled"
            /\ "error" \notin Events(r)
            /\ "healthy" \notin Events(r)

\* C10: a loginFlipkart call for an account whose tracked context still has
\* its first page open returns success at once, launching nothing and
\* leaving the account store and the cookie files as they were; a call that
\* finds a tracked context without an open page drops the entry and goes on
\* to launch.
C10_ReentryGuard ==
    [][\A r \in Runs :
        (run[r].pc = "idle" /\ run'[r].kind = "flipkart") =>
            LET a == run'[r].acct
                x == activeContexts[a]
            IN  IF x # 0 /\ ctxState[x] = "open" /\ pagesOpen[x]
                THEN /\ run'[r].pc = "done"
                     /\ run'[r].res = "success"
                     /\ ctxState' = ctxState
                     /\ accountsFile' = accountsFile
                     /\ cookieFile' = cookieFile
                     /\ activeContexts' = activeContexts
                ELSE /\ run'[r].pc = "launching"
                     /\ activeContexts'[a] = 0]_vars

\* C10 witness: a call returned through the re-entry guard while the tracked
\* context was open.
C10_Witness ==
    \E r \in Runs :
        /\ run[r].pc = "done"
        /\ run[r].msg = "Browser already open"
        /\ \E x \in Runs : x # r /\ run[x].kind = "flipkart" /\ run[x].acct = run[r].acct

(***************************************************************************)
(* loginFlipkart, the one-time-passcode stage: from getAccount to the      *)
(* wait for the logged-in signal.                                          *)
(***************************************************************************)
OtpRounds == 3

\* what getAccount resolves to: no record, a record without emailConfig, one whose
\* emailConfig has an empty passEncrypted, one with a passEncrypted
AccountDataKinds == {"undefined", "noEmailConfig", "emptyPass", "pass"}

\* accountData?.emailConfig?.passEncrypted, as a condition
PassEncryptedSet(accountData) == accountData = "pass"

\* a check that looks at the account's own mailbox only
HasOwnEmailConfigOnly(accountData, masterEmail) == PassEncryptedSet(accountData)

\* accountData?.emailConfig?.passEncrypted || settings.masterEmail
HasEmailConfig(accountData, masterEmail) == PassEncryptedSet(accountData) \/ masterEmail

\* no store call, no registry, no login run
RegIdle ==
    /\ contexts = <<>> /\ ctxState = <<>> /\ regKey = <<>> /\ latest = <<>>
    /\ closeAllPc = "idle" /\ iterPos = 0 /\ closing = 0 /\ closeLog = NoLog

OtpFrame == UNCHANGED <<storeVars, regVars, loginVars, cloud, call, vault, pureVars>>

OtpInit ==
    /\ StoreIdle /\ RegIdle /\ LoginIdle
    /\ cloud = <<>> /\ call = <<>> /\ vault = <<>> /\ PureIdle
    /\ \E keepOpen \in BOOLEAN, accountData \in AccountDataKinds, masterEmail \in BOOLEAN :
        otp = [pc |-> "getAccount", keepOpen |-> keepOpen, accountData |-> accountData,
               masterEmail |-> masterEmail, i |-> 0, otpFound |-> FALSE, warmed |-> FALSE,
               fetches |-> 0, thrown |-> "none", wait |-> "none",
               enterFailed |-> 0]

\* the first fetch of a round
RoundFetch(o) ==
    IF PassEncryptedSet(o.accountData) THEN "fetchAccount"
    ELSE IF o.masterEmail THEN "fetchMaster"
    ELSE "wait"

\* the code after the for loop
AfterLoop(o) ==
    IF ~o.otpFound /\ ~o.keepOpen
    THEN [o EXCEPT !.pc = "done", !.thrown = "OTP Fetching Failed"]
    ELSE [o EXCEPT !.pc = "detect"]

\* the end of round i without a break
NextRound(o) ==
    IF o.i + 1 < OtpRounds
    THEN [o EXCEPT !.i = o.i + 1, !.pc = RoundFetch(o)]
    ELSE AfterLoop([o EXCEPT !.i = o.i + 1])

\* getAccount resolves; hasEmailConfig decides
OtpGetAccount ==
    /\ otp.pc = "getAccount"
    /\ otp' = IF HasEmailConfig(otp.accountData, otp.masterEmail)
              THEN [otp EXCEPT !.pc = "warmup"]
              ELSE IF ~otp.keepOpen
              THEN [otp EXCEPT !.pc = "done", !.thrown = "Configuration Missing"]
              ELSE [otp EXCEPT !.pc = "detect"]
    /\ OtpFrame

\* getAccount rejects: loadAccounts failed
OtpGetAccountRejected ==
    /\ otp.pc = "getAccount"
    /\ otp' = [otp EXCEPT !.pc = "done", !.thrown = "store"]
    /\ OtpFrame

\* await page.waitForTimeout(10000)
OtpWarmup ==
    /\ otp.pc = "warmup"
    /\ otp' = [otp EXCEPT !.warmed = TRUE, !.pc = RoundFetch(otp)]
    /\ OtpFrame

\* a wait on a closed page throws
OtpWaitThrew ==
    /\ otp.pc \in {"warmup", "wait"}
    /\ otp' = [otp EXCEPT !.pc = "done", !.thrown = "closed"]
    /\ OtpFrame

\* fetchFlipkartOtp with the account's mailbox: a passcode or null
OtpFetchAccount ==
    /\ otp.pc = "fetchAccount"
    /\ \E found \in BOOLEAN :
        otp' = [otp EXCEPT !.fetches = @ + 1,
                           !.pc = IF found THEN "enter"
                                  ELSE IF otp.masterEmail THEN "fetchMaster" ELSE "wait"]
    /\ OtpFrame

\* fetchFlipkartOtp with the master mailbox
OtpFetchMaster ==
    /\ otp.pc = "fetchMaster"
    /\ \E found \in BOOLEAN :
        otp' = [otp EXCEPT !.fetches = @ + 1, !.pc = IF found THEN "enter" ELSE "wait"]
    /\ OtpFrame

\* the passcode is typed: otpFound = true; break -- or typing throws and the round ends
OtpEnter ==
    /\ otp.pc = "enter"
    /\ \E entered \in BOOLEAN :
        otp' = IF entered THEN AfterLoop([otp EXCEPT !.otpFound = TRUE])
               ELSE NextRound([otp EXCEPT !.enterFailed = @ + 1])
    /\ OtpFrame

\* await page.waitForTimeout(15000)
OtpWait ==
    /\ otp.pc = "wait"
    /\ otp' = NextRound(otp)
    /\ OtpFrame

(***************************************************************************)
(* The wait for the logged-in signal that follows the passcode stage: four *)
(* waitForSelector calls raced, with timeout keepOpen ? 0 : 60000, inside  *)
(* a try whose catch lets a time-out pass when keepOpen is set.            *)
(***************************************************************************)
DetectTimeout == 60000

\* timeout: keepOpen ? 0 : 60000; a timeout of 0 disables the time-out
WaitTimeout(keepOpen) == IF keepOpen THEN 0 ELSE DetectTimeout

\* the errors a waitForSelector call rejects with: its own time-out, the
\* closed target, a crashed page
TimeoutError == [name |-> "TimeoutError", message |-> <<"Timeout", "60000ms", "exceeded">>]
ClosedError == [name |-> "Error", message |-> <<"Target", "closed">>]
CrashError == [name |-> "Error", message |-> <<"Page", "crashed">>]

MessageIncludes(e, piece) == \E k \in 1..Len(e.message) : e.message[k] = piece

\* a catch that lets every time-out pass, keepOpen or not
SwallowedAlways(keepOpen, e) == e.name = "TimeoutError" \/ MessageIncludes(e, "timeout")

\* keepOpen && (e.name === 'TimeoutError' || e.message.includes('timeout'))
Swallowed(keepOpen, e) ==
    keepOpen /\ (e.name = "TimeoutError" \/ MessageIncludes(e, "timeout"))

\* the catch block of the wait: go on to the settle wait, or rethrow
DetectCaught(o, how, e) ==
    IF Swallowed(o.keepOpen, e)
    THEN [o EXCEPT !.pc = "settle", !.wait = how]
    ELSE [o EXCEPT !.pc = "done", !.wait = how,
                   !.thrown = IF e.name = "TimeoutError" THEN e.name ELSE e.message[2]]

\* one of the signals appears: the race resolves
DetectSignal ==
    /\ otp.pc = "detect"
    /\ otp' = [otp EXCEPT !.pc = "settle", !.wait = "signal"]
    /\ OtpFrame

\* the time-out of the waits passes
DetectExpired ==
    /\ otp.pc = "detect"
    /\ WaitTimeout(otp.keepOpen) # 0
    /\ otp' = DetectCaught(otp, "expired", TimeoutError)
    /\ OtpFrame

\* a wait rejects for another reason
DetectFailed ==
    /\ otp.pc = "detect"
    /\ \E e \in {ClosedError, CrashError} : otp' = DetectCaught(otp, "failed", e)
    /\ OtpFrame

OtpNext ==
    \/ DetectSignal
    \/ DetectExpired
    \/ DetectFailed
    \/ OtpGetAccount
    \/ OtpGetAccountRejected
    \/ OtpWarmup
    \/ OtpWaitThrew
    \/ OtpFetchAccount
    \/ OtpFetchMaster
    \/ OtpEnter
    \/ OtpWait

SpecOtp == OtpInit /\ [][OtpNext]_vars

C32_PollingRounds ==
    [][/\ otp'.i <= OtpRounds
       /\ otp'.fetches > 0 => otp'.warmed
       /\ (otp'.i = otp.i + 1 /\ otp'.i < OtpRounds) => otp.pc = "wait"
       /\ otp'.otpFound => otp'.pc \in {"detect", "settle", "done"}]_vars

\* C34: failures of entering or submitting the passcode, however many in a
\* run, do not by themselves fail the run: a run in which every round
\* fetched a code and only the entering failed does not end with an error.
C34_EntryFailuresTolerated ==
    otp.enterFailed = OtpRounds => otp.thrown \notin {"OTP Fetching Failed"}

\* C33: with keepOpen the wait for the logged-in signal never times out;
\* without keepOpen its time-out ends the run with the time-out error; in
\* both modes a wait that fails for another reason ends the run with that
\* error; the run goes on to the settle wait only when a signal was seen.
C33_DetectionWait ==
    /\ otp.keepOpen => otp.wait # "expired"
    /\ (~otp.keepOpen /\ otp.wait = "expired") =>
            (otp.pc = "done" /\ otp.thrown = "TimeoutError")
    /\ otp.wait = "failed" => (otp.pc = "done" /\ otp.thrown \in {"closed", "crashed"})
    /\ otp.pc = "settle" => otp.wait = "signal"

\* C33 witness: without keepOpen the wait timed out and the run ended with the error
C33_Witness ==
    /\ ~otp.keepOpen /\ otp.wait = "expired"
    /\ otp.pc = "done" /\ otp.thrown = "TimeoutError"

(***************************************************************************)
(* The account store under fair scheduling: a queued body whose            *)
(* predecessor settled is started, and a file operation in progress        *)
(* settles (it completes or it fails).  The process does not crash.        *)
(***************************************************************************)
MaxOps == 2 * NumCallers

\* the steps of the operation at position i of the queue
OpStep(i) ==
    /\ i <= Len(ops)
    /\ \/ StartBody(i)
       \/ LoadPathExists(i)
       \/ LoadReadJSON(i)
       \/ LoadWriteOpen(i)
       \/ LoadWriteFinish(i)
       \/ SaveWriteTmpOpen(i)
       \/ SaveWriteTmpFinish(i)
       \/ SaveMoveRemove(i)
       \/ SaveMoveRename(i)
       \/ FsFault(i)
    /\ StoreFrame

StoreLiveNext ==
    \/ \E c \in Callers : CallUpsert(c) /\ StoreFrame
    \/ \E i \in 1..Len(ops) : StartBody(i) /\ StoreFrame
    \/ \E i \in 1..Len(ops) : LoadPathExists(i) /\ StoreFrame
    \/ \E i \in 1..Len(ops) : LoadReadJSON(i) /\ StoreFrame
    \/ \E i \in 1..Len(ops) : LoadWriteOpen(i) /\ StoreFrame
    \/ \E i \in 1..Len(ops) : LoadWriteFinish(i) /\ StoreFrame
    \/ \E i \in 1..Len(ops) : SaveWriteTmpOpen(i) /\ StoreFrame
    \/ \E i \in 1..Len(ops) : SaveWriteTmpFinish(i) /\ StoreFrame
    \/ \E i \in 1..Len(ops) : SaveMoveRemove(i) /\ StoreFrame
    \/ \E i \in 1..Len(ops) : SaveMoveRename(i) /\ StoreFrame
    \/ \E i \in 1..Len(ops) : FsFault(i) /\ StoreFrame

StoreFairness == \A i \in 1..MaxOps : WF_vars(OpStep(i))

SpecStoreLive == StoreInit /\ [][StoreLiveNext]_vars /\ StoreFairness

FailedAt(i) == i <= Len(ops) /\ ops[i].st = "failed"
EnqueuedAt(j) == j <= Len(ops)
SettledAt(j) == j <= Len(ops) /\ Settled(j)

\* C12: whenever an operation of the queue has failed, every operation
\* enqueued after it is eventually started and settles.
C12_FailureDoesNotPoison ==
    \A i \in 1..MaxOps : \A j \in (i + 1)..MaxOps :
        (FailedAt(i) /\ EnqueuedAt(j)) ~> SettledAt(j)

\* C12 witness: an operation enqueued after a failed one has run to completion.
C12_Witness ==
    \E i \in 1..Len(ops) : \E j \in (i + 1)..Len(ops) :
        ops[i].st = "failed" /\ ops[j].st = "ok"

(***************************************************************************)
(* The replication layer (cloud.ts) beside the account store: pushAccounts *)
(* as saveAccounts fires it, and pullSyncData as the operator invokes it.  *)
(***************************************************************************)
\* the accounts.json the remote bucket holds
RemoteDocument == Doc(<<>>)

\* a saveAccounts chain that calls pushAccounts whatever the write's outcome
PushAfterAnyOutcome(saved) == TRUE

\* .then(operation).then(() => { pushAccounts(); }).catch(...): only a fulfilled write reaches it
PushAfter(saved) == saved

\* pushAccounts() is called for operation i and not awaited
StartPush(i, saved) ==
    IF PushAfter(saved)
    THEN [cloud EXCEPT !.pushes = Append(@, [op |-> i,
                                              pc |-> IF cloud.enabled THEN "read" ELSE "returned"])]
    ELSE cloud

CloudFrame == UNCHANGED <<regVars, loginVars, otp, call, vault, pureVars>>

CloudInit ==
    /\ RegIdle /\ LoginIdle
    /\ otp = <<>> /\ call = <<>> /\ vault = <<>> /\ PureIdle
    /\ accountsFile \in {Absent, Doc(<<>>)}
    /\ tmpFile = Absent
    /\ ops = <<>>
    /\ saveQueue = 0
    /\ callerPc = [c \in Callers |-> "idle"]
    /\ callerArg = [c \in Callers |-> NoArg]
    /\ callerRet = [c \in Callers |-> NoRecord]
    /\ concurrent = TRUE
    /\ faults = 0
    /\ crashed = FALSE
    /\ clock = 0
    /\ \E enabled \in BOOLEAN : cloud = [enabled |-> enabled, pull |-> "idle", pushes |-> <<>>]

\* a step of the store that fires no push
StoreStep ==
    \/ \E c \in Callers : CallUpsert(c)
    \/ \E i \in 1..Len(ops) : StartBody(i)
    \/ \E i \in 1..Len(ops) : LoadPathExists(i)
    \/ \E i \in 1..Len(ops) : LoadReadJSON(i)
    \/ \E i \in 1..Len(ops) : LoadWriteOpen(i)
    \/ \E i \in 1..Len(ops) : LoadWriteFinish(i)
    \/ \E i \in 1..Len(ops) : SaveWriteTmpOpen(i)
    \/ \E i \in 1..Len(ops) : SaveWriteTmpFinish(i)
    \/ \E i \in 1..Len(ops) : SaveMoveRemove(i)
    \/ \E i \in 1..Len(ops) : ops[i].kind = "load" /\ FsFault(i)

\* the write of saveAccounts is done: the chain goes on to call pushAccounts
SaveSucceeded(i) ==
    /\ SaveMoveRename(i)
    /\ cloud' = StartPush(i, TRUE)

\* the write of saveAccounts failed: the chain skips to its catch
SaveFailed(i) ==
    /\ ops[i].kind = "save"
    /\ FsFault(i)
    /\ cloud' = StartPush(i, FALSE)

\* pushAccounts: fs.readJSON(ACCOUNTS_FILE); a failure is caught and logged
PushRead(n) ==
    /\ cloud.pushes[n].pc = "read"
    /\ cloud' = [cloud EXCEPT !.pushes[n].pc = IF IsValidDocument(accountsFile) THEN "upload"
                                               ELSE "failed"]
    /\ UNCHANGED storeVars

\* pushAccounts: the upload answers, with or without an error
PushUploadSettles(n) ==
    /\ cloud.pushes[n].pc = "upload"
    /\ \E error \in BOOLEAN :
        cloud' = [cloud EXCEPT !.pushes[n].pc = IF error THEN "failed" ELSE "ok"]
    /\ UNCHANGED storeVars

\* pullSyncData: the client exists and the download of accounts.json is awaited
PullStart ==
    /\ cloud.pull = "idle"
    /\ cloud' = [cloud EXCEPT !.pull = IF cloud.enabled THEN "download" ELSE "returned"]
    /\ UNCHANGED storeVars

\* the download answered: accError skips the restore, otherwise fs.writeJSON opens ACCOUNTS_FILE
PullDownloaded ==
    /\ cloud.pull = "download"
    /\ \E accError \in BOOLEAN :
        IF accError
        THEN /\ cloud' = [cloud EXCEPT !.pull = "returned"]
             /\ UNCHANGED accountsFile
        ELSE /\ cloud' = [cloud EXCEPT !.pull = "writing"]
             /\ accountsFile' = Partial
    /\ UNCHANGED <<tmpFile, ops, saveQueue, callerPc, callerArg, callerRet, concurrent, faults,
                   crashed, clock>>

\* fs.writeJSON(ACCOUNTS_FILE, json) completes
PullWritten ==
    /\ cloud.pull = "writing"
    /\ cloud' = [cloud EXCEPT !.pull = "returned"]
    /\ accountsFile' = RemoteDocument
    /\ UNCHANGED <<tmpFile, ops, saveQueue, callerPc, callerArg, callerRet, concurrent, faults,
                   crashed, clock>>

CloudNext ==
    \/ StoreStep /\ UNCHANGED cloud /\ CloudFrame
    \/ \E i \in 1..Len(ops) : SaveSucceeded(i) /\ CloudFrame
    \/ \E i \in 1..Len(ops) : SaveFailed(i) /\ CloudFrame
    \/ \E n \in 1..Len(cloud.pushes) : PushRead(n) /\ CloudFrame
    \/ \E n \in 1..Len(cloud.pushes) : PushUploadSettles(n) /\ CloudFrame
    \/ PullStart /\ CloudFrame
    \/ PullDownloaded /\ CloudFrame
    \/ PullWritten /\ CloudFrame

SpecCloud == CloudInit /\ [][CloudNext]_vars

\* C13: in every reachable state, no write of the account document made
\* outside the queue (pullSyncData's restore) is in progress while a queued
\* store operation is running.
C13_DocumentWritesQueued == ~(cloud.pull = "writing" /\ Running # {})

\* every pushAccounts call was fired by a save whose write succeeded, and the
\* caller of that save has its result whatever the state of the push
PushesFollowWrites ==
    \A n \in 1..Len(cloud.pushes) :
        LET i == cloud.pushes[n].op
        IN  /\ ops[i].kind = "save"
            /\ ops[i].st = "ok"
            /\ callerPc[ops[i].caller] = "done"

\* a step of a pushAccounts call already fired
PushProgress ==
    /\ Len(cloud.pushes') = Len(cloud.pushes)
    /\ cloud.pushes' # cloud.pushes

\* C17: pushAccounts is fired only by a save whose write has succeeded; the
\* save has settled and its caller has returned while the push is still in
\* flight; and no step of a push, whether it ends well, fails or never ends,
\* changes the document on disk, the queue or what a caller was given.
C17_PushAfterWriteNotAwaited ==
    [][/\ PushesFollowWrites'
       /\ PushProgress => UNCHANGED <<accountsFile, tmpFile, ops, saveQueue, callerPc, callerRet>>
      ]_vars

\* C17 witness: a push failed and another is still in flight, after their
\* saves returned to their callers.
C17_Witness ==
    /\ PushesFollowWrites
    /\ \E n \in 1..Len(cloud.pushes) : cloud.pushes[n].pc = "failed"
    /\ \E n \in 1..Len(cloud.pushes) : cloud.pushes[n].pc \in {"read", "upload"}
    /\ IsValidDocument(accountsFile)

(***************************************************************************)
(* The account store called sequentially: each call is awaited before the  *)
(* next is made, and no file operation fails.  A call is its load, its     *)
(* change of the loaded accounts and its save.                             *)
(***************************************************************************)
MaxCalls == 3

\* the spellings callers pass for one account id
Spellings == {"a", "A", " a"}

\* updateAccountStatus: the accounts it saves (none when the account is not found)
StatusData(accts, accountId, status, errorCode, now) ==
    LET i == StoredIndex(accts, accountId)
    IN  IF i = 0 THEN accts ELSE [accts EXCEPT ![i] = StatusRecord(@, status, errorCode, now)]

\* updateLastLogin: the accounts it saves
LastLoginData(accts, accountId, now) ==
    LET i == StoredIndex(accts, accountId)
    IN  IF i = 0 THEN accts ELSE [accts EXCEPT ![i] = LastLoginRecord(@, now)]

\* deleteAccount: data.accounts.splice(index, 1)
DeleteData(accts, accountId) ==
    LET i == StoredIndex(accts, accountId)
    IN  IF i = 0 THEN accts ELSE SubSeq(accts, 1, i - 1) \o SubSeq(accts, i + 1, Len(accts))

SeqFrame == UNCHANGED <<tmpFile, ops, saveQueue, callerPc, callerArg, callerRet, concurrent,
                        faults, crashed, regVars, loginVars, otp, cloud, vault, pureVars>>

SeqInit ==
    /\ StoreIdle /\ RegIdle /\ LoginIdle
    /\ otp = <<>> /\ cloud = <<>> /\ vault = <<>> /\ PureIdle
    /\ call = [n |-> 0, op |-> "none", id |-> "", identifier |-> Omitted, status |-> Omitted,
               errorCode |-> Omitted]

\* one more call is made, with the clock read inside it
Called(op, id, identifier, status, errorCode) ==
    /\ call.n < MaxCalls
    /\ call' = [n |-> call.n + 1, op |-> op, id |-> id, identifier |-> identifier,
                status |-> status, errorCode |-> errorCode]

SeqUpsert ==
    \E id \in Spellings, identifier \in {Omitted, "p2"}, status \in {Omitted, "Locked"},
       now \in ClockReadings :
        /\ Called("upsertAccount", id, identifier, status, Omitted)
        /\ clock' = now
        /\ accountsFile' = Doc(UpsertData(accountsFile.accounts,
                                          [id |-> id, identifier |-> identifier, status |-> status],
                                          now))
        /\ SeqFrame

\* an upsertAccount whose partial carries updatedAt (a record copied from elsewhere)
SeqUpsertStamped ==
    \E id \in Spellings, stamp \in 0..MaxClock, now \in ClockReadings :
        /\ Called("upsertAccount", id, Omitted, Omitted, Omitted)
        /\ clock' = now
        /\ accountsFile' = Doc(UpsertData(accountsFile.accounts,
                                          [id |-> id, identifier |-> Omitted, updatedAt |-> stamp],
                                          now))
        /\ SeqFrame

SeqUpdateStatus ==
    \E id \in Spellings, status \in {"Healthy", "Error"}, errorCode \in {Omitted, "", "e1"},
       now \in ClockReadings :
        /\ Called("updateAccountStatus", id, Omitted, status, errorCode)
        /\ clock' = now
        /\ accountsFile' = Doc(StatusData(accountsFile.accounts, id, status, errorCode, now))
        /\ SeqFrame

SeqUpdateLastLogin ==
    \E id \in Spellings, now \in ClockReadings :
        /\ Called("updateLastLogin", id, Omitted, Omitted, Omitted)
        /\ clock' = now
        /\ accountsFile' = Doc(LastLoginData(accountsFile.accounts, id, now))
        /\ SeqFrame

SeqDelete ==
    \E id \in Spellings :
        /\ Called("deleteAccount", id, Omitted, Omitted, Omitted)
        /\ accountsFile' = Doc(DeleteData(accountsFile.accounts, id))
        /\ UNCHANGED clock
        /\ SeqFrame

SeqNext ==
    \/ SeqUpsert
    \/ SeqUpsertStamped
    \/ SeqUpdateStatus
    \/ SeqUpdateLastLogin
    \/ SeqDelete

SpecSeq == SeqInit /\ [][SeqNext]_vars

\* C14: in every state reached by a sequence of upsertAccount,
\* updateAccountStatus, updateLastLogin and deleteAccount calls, no two
\* stored records have ids that are equal after lower-casing and trimming.
C14_NormalizedIdsUnique ==
    \A i, j \in 1..Len(accountsFile.accounts) :
        i # j => NormalizeId(accountsFile.accounts[i].id) # NormalizeId(accountsFile.accounts[j].id)

\* the record is the account the id names, letter case and surrounding blanks aside
Matches(rec, id) == NormalizeId(rec.id) = NormalizeId(id)

\* the step is a call of op
IsCall(op) == call'.n = call.n + 1 /\ call'.op = op

\* the value a merge leaves in a field: the supplied one, or the earlier one
Merged(supplied, earlier) == IF supplied = Omitted THEN earlier ELSE supplied

\* C15: an upsertAccount whose id matches a stored record (case aside)
\* changes that record in place: the record count stays, the fields the
\* partial supplies are replaced, the fields it omits and every other record
\* are kept; an upsertAccount whose id matches no record appends exactly one
\* record, with status New when the partial has no status.
C15_UpsertMergesOrAppends ==
    [][IsCall("upsertAccount") =>
        LET before == accountsFile.accounts
            after == accountsFile'.accounts
        IN  IF \E i \in 1..Len(before) : Matches(before[i], call'.id)
            THEN /\ Len(after) = Len(before)
                 /\ \E i \in 1..Len(before) :
                     /\ Matches(before[i], call'.id)
                     /\ after[i].identifier = Merged(call'.identifier, before[i].identifier)
                     /\ after[i].status = Merged(call'.status, before[i].status)
                     /\ after[i].errorCode = before[i].errorCode
                     /\ after[i].createdAt = before[i].createdAt
                     /\ after[i].lastLoginAt = before[i].lastLoginAt
                     /\ after[i].lastValidateAt = before[i].lastValidateAt
                     /\ \A j \in 1..Len(before) : j # i => after[j] = before[j]
            ELSE /\ Len(after) = Len(before) + 1
                 /\ SubSeq(after, 1, Len(before)) = before
                 /\ call'.status = Omitted => after[Len(after)].status = "New"
      ]_vars

\* C31: every upsertAccount, creating or updating, whatever its partial
\* carries, leaves the record of its id with updatedAt equal to the time read
\* during the call.
C31_UpsertStampsUpdatedAt ==
    [][IsCall("upsertAccount") =>
        \E i \in 1..Len(accountsFile'.accounts) :
            /\ Matches(accountsFile'.accounts[i], call'.id)
            /\ accountsFile'.accounts[i].updatedAt = clock']_vars

\* C16: an updateAccountStatus naming a stored account sets that record's
\* status and updatedAt; with status Healthy it sets lastValidateAt to the
\* same timestamp and removes errorCode; with another status it stores a
\* given (non-empty) errorCode, and leaves the stored errorCode when none is
\* given.
C16_StatusUpdate ==
    [][IsCall("updateAccountStatus") =>
        LET before == accountsFile.accounts
            after == accountsFile'.accounts
            given == call'.errorCode \notin {Omitted, ""}
        IN  (\E i \in 1..Len(before) : Matches(before[i], call'.id)) =>
                /\ Len(after) = Len(before)
                /\ \E i \in 1..Len(before) :
                    /\ Matches(before[i], call'.id)
                    /\ after[i].status = call'.status
                    /\ after[i].updatedAt = clock'
                    /\ call'.status = "Healthy" =>
                        (after[i].lastValidateAt = clock' /\ after[i].errorCode = Omitted)
                    /\ (call'.status # "Healthy" /\ given) => after[i].errorCode = call'.errorCode
                    /\ (call'.status # "Healthy" /\ ~given) =>
                        after[i].errorCode = before[i].errorCode
      ]_vars

(***************************************************************************)
(* The mutating calls of the account store running concurrently.  Every    *)
(* call awaits loadAccounts, changes the document it was given and awaits  *)
(* saveAccounts; the loads and saves are bodies of one queue, run one at a *)
(* time in the order they were chained.  No file operation fails.          *)
(***************************************************************************)
MixOps == {"upsertAccount", "updateAccountStatus", "updateLastLogin", "deleteAccount"}

MixFrame == UNCHANGED <<tmpFile, ops, saveQueue, callerPc, callerArg, callerRet, concurrent,
                        faults, crashed, regVars, loginVars, otp, cloud, vault, pureVars>>

IdleCall == [op |-> "none", id |-> "", pc |-> "idle", data |-> <<>>, ret |-> "none"]

\* both accounts are stored when the calls begin
MixInit ==
    /\ tmpFile = Absent /\ ops = <<>> /\ saveQueue = 0
    /\ callerPc = [c \in Callers |-> "idle"]
    /\ callerArg = [c \in Callers |-> NoArg]
    /\ callerRet = [c \in Callers |-> NoRecord]
    /\ concurrent = TRUE /\ faults = 0 /\ crashed = FALSE /\ clock = 0
    /\ RegIdle /\ LoginIdle
    /\ otp = <<>> /\ cloud = <<>> /\ vault = <<>> /\ PureIdle
    /\ accountsFile = Doc(<<NewAccount([id |-> "a", identifier |-> "p1"], 0),
                            NewAccount([id |-> "b", identifier |-> "p1"], 0)>>)
    /\ call = [callers |-> [c \in Callers |-> IdleCall], queue |-> <<>>]

\* the call begins: loadAccounts chains its body on the queue
MixCall(c) ==
    /\ call.callers[c].pc = "idle"
    /\ \A d \in 1..(c - 1) : call.callers[d].pc # "idle"
    /\ \E op \in MixOps, id \in StoreIds :
        call' = [callers |-> [call.callers EXCEPT ![c] = [@ EXCEPT !.op = op, !.id = id,
                                                                   !.pc = "awaitLoad"]],
                 queue |-> Append(call.queue, [caller |-> c, kind |-> "load"])]
    /\ UNCHANGED <<accountsFile, clock>>
    /\ MixFrame

\* the document a call hands to saveAccounts, made from the one it loaded
MixData(op, accts, id, now) ==
    CASE op = "upsertAccount" -> UpsertData(accts, [id |-> id, identifier |-> "p2"], now)
      [] op = "updateAccountStatus" -> StatusData(accts, id, "Error", "e1", now)
      [] op = "updateLastLogin" -> LastLoginData(accts, id, now)
      [] op = "deleteAccount" -> DeleteData(accts, id)

\* if (account) / if (index >= 0): whether the call saves at all
MixSaves(op, accts, id) == op = "upsertAccount" \/ StoredIndex(accts, id) >= 1

\* the load at the head of the queue settles and its caller goes on: it
\* chains its save, or returns when its account is not stored
MixLoad ==
    /\ call.queue # <<>>
    /\ Head(call.queue).kind = "load"
    /\ \E now \in ClockReadings :
        LET c == Head(call.queue).caller
            mine == call.callers[c]
            accts == accountsFile.accounts
        IN  /\ clock' = now
            /\ call' = IF MixSaves(mine.op, accts, mine.id)
                       THEN [callers |-> [call.callers EXCEPT ![c] =
                                            [@ EXCEPT !.pc = "awaitSave",
                                                      !.data = MixData(mine.op, accts, mine.id, now)]],
                             queue |-> Append(Tail(call.queue), [caller |-> c, kind |-> "save"])]
                       ELSE [callers |-> [call.callers EXCEPT ![c] =
                                            [@ EXCEPT !.pc = "done", !.ret = "notFound"]],
                             queue |-> Tail(call.queue)]
    /\ UNCHANGED accountsFile
    /\ MixFrame

\* the save at the head of the queue writes its document and its caller returns
MixSave ==
    /\ call.queue # <<>>
    /\ Head(call.queue).kind = "save"
    /\ LET c == Head(call.queue).caller
       IN  /\ accountsFile' = Doc(call.callers[c].data)
           /\ call' = [callers |-> [call.callers EXCEPT ![c] =
                                      [@ EXCEPT !.pc = "done", !.data = <<>>, !.ret = "saved"]],
                       queue |-> Tail(call.queue)]
    /\ UNCHANGED clock
    /\ MixFrame

MixNext ==
    \/ \E c \in Callers : MixCall(c)
    \/ MixLoad
    \/ MixSave

SpecMix == MixInit /\ [][MixNext]_vars

\* every call has returned
MixQuiet == \A c \in Callers : call.callers[c].pc = "done"

\* no other call names the account of call c
OnlyCallOn(c) == \A d \in Callers : d # c => call.callers[d].id # call.callers[c].id

\* C36: once every call has returned, an account whose deleteAccount saved
\* (returned true) is absent from the document, and an account whose
\* updateAccountStatus saved has the status it set, whatever calls on other
\* accounts ran at the same time.
C36_OtherAccountsLeaveItAlone ==
    MixQuiet =>
        \A c \in Callers :
            LET mine == call.callers[c]
                i == StoredIndex(accountsFile.accounts, mine.id)
            IN  (mine.ret = "saved" /\ OnlyCallOn(c)) =>
                    /\ mine.op = "deleteAccount" => i = 0
                    /\ mine.op = "updateAccountStatus" =>
                        (i >= 1 /\ accountsFile.accounts[i].status = "Error")

(***************************************************************************)
(* The profile vault (profiles/store.ts).  Buffers are sequences of        *)
(* symbolic bytes.  Key derivation, the cipher and the authentication tag  *)
(* are ideal: a key is the pair it was derived from, a cipher byte opens   *)
(* only under the key, iv and position that made it, and a tag is equal    *)
(* to another only when key, iv and ciphertext are.                        *)
(***************************************************************************)
SALT_LENGTH == 16
IV_LENGTH == 12
AUTH_TAG_LENGTH == 16

MaxVaultCalls == 3

Passphrases == {"p1", "p2"}
NoPassphrase == "null"
RandomValues == {1, 2}
ProfileContents == {<<"f1">>, <<"f1", "f2">>}

\* crypto.randomBytes(n)
RandomBytes(n, r) == [i \in 1..n |-> [random |-> IF i = 1 THEN r ELSE 0]]

\* Buffer.subarray(start, end), clamped to the buffer
SubArray(buf, start, end) ==
    LET e == IF end > Len(buf) THEN Len(buf) ELSE end
    IN  IF start >= e THEN <<>> ELSE SubSeq(buf, start + 1, e)

\* crypto.pbkdf2Sync(globalPassphrase, salt, ...)
DeriveKey(passphrase, salt) == <<passphrase, salt>>

\* Buffer.concat([cipher.update(zipBuffer), cipher.final()])
CipherBytes(key, iv, plain) ==
    [i \in 1..Len(plain) |-> [key |-> key, iv |-> iv, at |-> i, plain |-> plain[i]]]

\* Buffer.concat([decipher.update(encryptedText), decipher.final()]), the tag aside
DecipherBytes(key, iv, encryptedText) ==
    [i \in 1..Len(encryptedText) |->
        LET byte == encryptedText[i]
        IN  IF /\ "plain" \in DOMAIN byte
               /\ byte.key = key /\ byte.iv = iv /\ byte.at = i
            THEN byte.plain ELSE "garbage"]

\* cipher.getAuthTag()
AuthTag(key, iv, encrypted) ==
    [i \in 1..AUTH_TAG_LENGTH |-> [mac |-> <<key, iv, encrypted>>, at |-> i]]

\* a decipher that returns its output without checking the tag
AuthenticUnchecked(key, iv, tag, encryptedText) == TRUE

\* decipher.final() accepts: the tag set by setAuthTag is the tag of what was deciphered
Authentic(key, iv, tag, encryptedText) == tag = AuthTag(key, iv, encryptedText)

\* zip.addLocalFolder(profilePath); zip.writeZip(zipPath)
ZipFolder(files) == <<"PK">> \o files

\* new AdmZip(tempZipPath) accepts the buffer
IsZip(buf) == Len(buf) > 0 /\ buf[1] = "PK" /\ \A i \in 2..Len(buf) : buf[i] # "garbage"

\* zip.extractAllTo(profilePath, true)
ExtractAll(buf) == Tail(buf)

\* a reader that takes the tag from right behind the salt
TagOffsetBehindSalt == SALT_LENGTH

\* the tag lies behind salt and iv
TagOffset == SALT_LENGTH + IV_LENGTH

\* Final layout: [SALT (16)][IV (12)][TAG (16)][ENCRYPTED DATA]
FinalBuffer(salt, iv, tag, encrypted) == salt \o iv \o tag \o encrypted

ParseSalt(fileData) == SubArray(fileData, 0, SALT_LENGTH)
ParseIv(fileData) == SubArray(fileData, SALT_LENGTH, SALT_LENGTH + IV_LENGTH)
ParseTag(fileData) == SubArray(fileData, TagOffset, TagOffset + AUTH_TAG_LENGTH)
ParseEncrypted(fileData) ==
    SubArray(fileData, SALT_LENGTH + IV_LENGTH + AUTH_TAG_LENGTH, Len(fileData))

NoFile == [exists |-> FALSE, bytes |-> <<>>]
File(bytes) == [exists |-> TRUE, bytes |-> bytes]
NoDir == [exists |-> FALSE, files |-> <<>>]
Dir(files) == [exists |-> TRUE, files |-> files]

\* what the last completed save put in the backup file
NothingSaved == [valid |-> FALSE, passphrase |-> NoPassphrase, files |-> <<>>]

VaultFrame == UNCHANGED <<storeVars, regVars, loginVars, otp, cloud, call, pureVars>>

VaultInit ==
    /\ StoreIdle /\ RegIdle /\ LoginIdle
    /\ otp = <<>> /\ cloud = <<>> /\ call = <<>> /\ PureIdle
    /\ \E files \in ProfileContents, exists \in BOOLEAN :
        vault = [globalPassphrase |-> NoPassphrase,
                 userDataDir |-> IF exists THEN Dir(files) ELSE NoDir,
                 encFile |-> NoFile, zipFile |-> NoFile, tempZip |-> NoFile,
                 pc |-> "idle", op |-> "none", result |-> "none", buffer |-> <<>>,
                 dirAtCall |-> NoDir, encAtCall |-> NoFile, args |-> <<>>,
                 saved |-> NothingSaved, altered |-> "no", calls |-> 0]

\* the caller has taken the outcome of the last call
Taken ==
    [vault EXCEPT !.op = "none", !.result = "none", !.buffer = <<>>, !.args = <<>>,
                  !.dirAtCall = NoDir, !.encAtCall = NoFile]

\* setGlobalPassphrase(pass)
SetGlobalPassphrase(pass) ==
    /\ vault.pc = "idle"
    /\ vault.globalPassphrase # pass
    /\ vault' = [Taken EXCEPT !.globalPassphrase = pass]
    /\ VaultFrame

\* the browser works in the profile between vault calls
ProfileUsed(files) ==
    /\ vault.pc = "idle"
    /\ vault.userDataDir # Dir(files)
    /\ vault' = [Taken EXCEPT !.userDataDir = Dir(files)]
    /\ VaultFrame

\* the part of the final layout that byte k lies in
Region(k) ==
    IF k <= SALT_LENGTH THEN "salt"
    ELSE IF k <= TagOffset THEN "iv"
    ELSE IF k <= TagOffset + AUTH_TAG_LENGTH THEN "tag"
    ELSE "ciphertext"

\* one byte of the backup file is changed outside the program
BackupAltered(k) ==
    /\ vault.pc = "idle"
    /\ vault.encFile.exists /\ vault.altered = "no"
    /\ k \in 1..Len(vault.encFile.bytes)
    /\ vault' = [Taken EXCEPT !.encFile = File([vault.encFile.bytes EXCEPT ![k] = [altered |-> TRUE]]),
                              !.altered = Region(k)]
    /\ VaultFrame

\* the backup file is cut short outside the program
BackupTruncated(n) ==
    /\ vault.pc = "idle"
    /\ vault.encFile.exists /\ vault.altered = "no"
    /\ n < Len(vault.encFile.bytes)
    /\ vault' = [Taken EXCEPT !.encFile = File(SubArray(vault.encFile.bytes, 0, n)),
                              !.altered = "truncated"]
    /\ VaultFrame

Calling(op) ==
    [vault EXCEPT !.op = op, !.result = "none", !.buffer = <<>>, !.args = <<>>,
                  !.dirAtCall = vault.userDataDir, !.encAtCall = vault.encFile,
                  !.calls = @ + 1]

\* a new process starts: let globalPassphrase = null
ProcessStarted ==
    /\ vault.pc = "idle"
    /\ vault.globalPassphrase # NoPassphrase
    /\ vault' = [Taken EXCEPT !.globalPassphrase = NoPassphrase]
    /\ VaultFrame

\* a getKey that derives a key from whatever globalPassphrase holds
NeverLocked(passphrase) == FALSE

\* getKey: if (!globalPassphrase) throw
Locked(passphrase) == passphrase = NoPassphrase

\* saveProfileToDisk: if (!await fs.pathExists(profilePath)) throw
SaveProfileNotFound ==
    /\ vault.pc = "idle" /\ vault.calls < MaxVaultCalls
    /\ ~vault.userDataDir.exists
    /\ vault' = [Calling("save") EXCEPT !.result = "profileNotFound"]
    /\ VaultFrame

\* saveProfileToDisk up to zip.writeZip(zipPath)
SaveZip ==
    /\ vault.pc = "idle" /\ vault.calls < MaxVaultCalls
    /\ vault.userDataDir.exists
    /\ vault' = [Calling("save") EXCEPT !.pc = "saveZipped",
                                        !.zipFile = File(ZipFolder(vault.userDataDir.files))]
    /\ VaultFrame

\* getKey(salt) throws: the catch rethrows, the zip stays
SaveLocked ==
    /\ vault.pc = "saveZipped"
    /\ Locked(vault.globalPassphrase)
    /\ vault' = [vault EXCEPT !.pc = "idle", !.result = "locked"]
    /\ VaultFrame

\* salt, iv, key; the stream writes salt, iv and the cipher output to encPath
SaveStream(s, v) ==
    /\ vault.pc = "saveZipped"
    /\ ~Locked(vault.globalPassphrase)
    /\ LET salt == RandomBytes(SALT_LENGTH, s)
           iv == RandomBytes(IV_LENGTH, v)
           key == DeriveKey(vault.globalPassphrase, salt)
       IN  vault' = [vault EXCEPT
                !.pc = "saveStreamed",
                !.buffer = <<salt, iv>>,
                !.encFile = File(salt \o iv \o CipherBytes(key, iv, vault.zipFile.bytes)),
                !.saved = NothingSaved, !.altered = "no"]
    /\ VaultFrame

\* readFile(zipPath), cipher2, writeFile(encPath, finalBuffer), remove(zipPath)
SaveWrite ==
    /\ vault.pc = "saveStreamed"
    /\ LET salt == vault.buffer[1]
           iv == vault.buffer[2]
           key == DeriveKey(vault.globalPassphrase, salt)
           zipBuffer == vault.zipFile.bytes
           encrypted == CipherBytes(key, iv, zipBuffer)
           tag == AuthTag(key, iv, encrypted)
       IN  vault' = [vault EXCEPT
                !.pc = "idle", !.result = "ok", !.buffer = <<>>,
                !.encFile = File(FinalBuffer(salt, iv, tag, encrypted)),
                !.zipFile = NoFile,
                !.saved = [valid |-> TRUE, passphrase |-> vault.globalPassphrase,
                           files |-> ExtractAll(zipBuffer)]]
    /\ VaultFrame

\* fs.readFile(zipPath) or fs.writeFile(encPath, finalBuffer) throws: the catch
\* rethrows; the zip and what the stream wrote to encPath stay
SaveWriteFailed ==
    /\ vault.pc = "saveStreamed"
    /\ vault' = [vault EXCEPT !.pc = "idle", !.result = "writeFailed", !.buffer = <<>>]
    /\ VaultFrame

\* restoreProfileFromDisk: if (!await fs.pathExists(encPath)) throw
RestoreNotFound ==
    /\ vault.pc = "idle" /\ vault.calls < MaxVaultCalls
    /\ ~vault.encFile.exists
    /\ vault' = [Calling("restore") EXCEPT !.result = "encNotFound"]
    /\ VaultFrame

\* fileData = await fs.readFile(encPath)
RestoreRead ==
    /\ vault.pc = "idle" /\ vault.calls < MaxVaultCalls
    /\ vault.encFile.exists
    /\ vault' = [Calling("restore") EXCEPT !.pc = "restoreRead",
                                           !.buffer = vault.encFile.bytes]
    /\ VaultFrame

\* getKey(salt) throws
RestoreLocked ==
    /\ vault.pc = "restoreRead"
    /\ Locked(vault.globalPassphrase)
    /\ vault' = [vault EXCEPT !.pc = "idle", !.result = "locked", !.buffer = <<>>]
    /\ VaultFrame

\* createDecipheriv accepts the iv: it is not empty
WellFormed(fileData) == Len(ParseIv(fileData)) > 0

\* decipher.final() accepts the data under the key derived from the file's salt
Decrypts(fileData, passphrase) ==
    /\ WellFormed(fileData)
    /\ Authentic(DeriveKey(passphrase, ParseSalt(fileData)), ParseIv(fileData),
                 ParseTag(fileData), ParseEncrypted(fileData))

\* createDecipheriv, setAuthTag or decipher.final() throws
RestoreDecryptFailed ==
    /\ vault.pc = "restoreRead"
    /\ ~Locked(vault.globalPassphrase)
    /\ ~Decrypts(vault.buffer, vault.globalPassphrase)
    /\ vault' = [vault EXCEPT !.pc = "idle", !.buffer = <<>>,
                              !.result = IF WellFormed(vault.buffer) THEN "auth" ELSE "format"]
    /\ VaultFrame

\* decrypted; writeFile(tempZipPath, decrypted)
RestoreDecrypted ==
    /\ vault.pc = "restoreRead"
    /\ ~Locked(vault.globalPassphrase)
    /\ Decrypts(vault.buffer, vault.globalPassphrase)
    /\ LET fileData == vault.buffer
           key == DeriveKey(vault.globalPassphrase, ParseSalt(fileData))
       IN  vault' = [vault EXCEPT
                !.pc = "restoreDecrypted", !.buffer = <<>>,
                !.tempZip = File(DecipherBytes(key, ParseIv(fileData), ParseEncrypted(fileData)))]
    /\ VaultFrame

\* ensureDir(profileDir); emptyDir(profilePath)
RestoreEmptyDir ==
    /\ vault.pc = "restoreDecrypted"
    /\ vault' = [vault EXCEPT !.pc = "restoreEmptied", !.userDataDir = Dir(<<>>)]
    /\ VaultFrame

\* new AdmZip(tempZipPath).extractAllTo(profilePath, true); remove(tempZipPath);
\* when AdmZip rejects the temp zip the catch rethrows and the temp zip stays
RestoreExtract ==
    /\ vault.pc = "restoreEmptied"
    /\ vault' = IF IsZip(vault.tempZip.bytes)
                THEN [vault EXCEPT !.pc = "idle", !.result = "ok",
                                   !.userDataDir = Dir(ExtractAll(vault.tempZip.bytes)),
                                   !.tempZip = NoFile]
                ELSE [vault EXCEPT !.pc = "idle", !.result = "zip"]
    /\ VaultFrame

(***************************************************************************)
(* crypto.ts: the same construction over hex strings.  The module keeps no *)
(* state, so its functions are applied before the first call of the store. *)
(***************************************************************************)
CRYPTO_IV_LENGTH == 16
CRYPTO_SALT_LENGTH == 32

PlainData == {<<"d1">>, <<"d1", "d2">>}
HexFields == {"iv", "authTag", "ciphertext", "salt"}

\* buf.toString('hex'): two digits a byte
ToHex(buf) == [i \in 1..(2 * Len(buf)) |-> [of |-> buf[(i + 1) \div 2], half |-> 2 - (i % 2)]]

IsHexDigit(c) == "half" \in DOMAIN c

\* the number of leading pairs of hex digits
RECURSIVE HexPairs(_, _)
HexPairs(str, j) ==
    IF 2 * j <= Len(str) /\ IsHexDigit(str[2 * j - 1]) /\ IsHexDigit(str[2 * j])
    THEN HexPairs(str, j + 1) ELSE j - 1

\* Buffer.from(str, 'hex'): decodes up to the first pair that is not hex
FromHex(str) ==
    [j \in 1..HexPairs(str, 1) |->
        IF /\ str[2 * j - 1].half = 1 /\ str[2 * j].half = 2
           /\ str[2 * j - 1].of = str[2 * j].of
        THEN str[2 * j].of ELSE [altered |-> TRUE]]

\* encrypt(data, key)
Encrypt(data, key, v) ==
    LET iv == RandomBytes(CRYPTO_IV_LENGTH, v)
        ciphertext == CipherBytes(key, iv, data)
    IN  [iv |-> ToHex(iv), authTag |-> ToHex(AuthTag(key, iv, ciphertext)),
         ciphertext |-> ToHex(ciphertext), salt |-> <<>>]

\* decrypt(encrypted, key)
Decrypt(encrypted, key) ==
    LET iv == FromHex(encrypted.iv)
        authTag == FromHex(encrypted.authTag)
        ciphertext == FromHex(encrypted.ciphertext)
    IN  IF Len(iv) = 0 THEN [error |-> "format", data |-> <<>>]
        ELSE IF Len(authTag) # AUTH_TAG_LENGTH \/ ~Authentic(key, iv, authTag, ciphertext)
        THEN [error |-> "auth", data |-> <<>>]
        ELSE [error |-> "ok", data |-> DecipherBytes(key, iv, ciphertext)]

\* encryptWithPassphrase(data, passphrase)
EncryptWithPassphrase(data, passphrase, s, v) ==
    LET salt == RandomBytes(CRYPTO_SALT_LENGTH, s)
        key == DeriveKey(passphrase, salt)
    IN  [Encrypt(data, key, v) EXCEPT !.salt = ToHex(salt)]

\* decryptWithPassphrase(encrypted, passphrase)
DecryptWithPassphrase(encrypted, passphrase) ==
    Decrypt(encrypted, DeriveKey(passphrase, FromHex(encrypted.salt)))

\* one character of a field of the EncryptedData is replaced
Changed(encrypted, field, by) ==
    IF field = "none" \/ Len(encrypted[field]) = 0 THEN encrypted
    ELSE [encrypted EXCEPT ![field][1] =
            IF by = "digit" THEN [of |-> [altered |-> TRUE], half |-> 1]
            ELSE [nonhex |-> TRUE]]

\* decryptWithPassphrase(changed encryptWithPassphrase(data, p), q)
CryptoRoundTrip(data, p, q, s, v, field, by) ==
    /\ vault.pc = "idle" /\ vault.calls = 0
    /\ LET out == DecryptWithPassphrase(
                      Changed(EncryptWithPassphrase(data, p, s, v), field, by), q)
       IN  vault' = [Calling("crypto") EXCEPT
                !.result = out.error, !.buffer = out.data,
                !.args = [data |-> data, p |-> p, q |-> q, field |-> field]]
    /\ VaultFrame

VaultNext ==
    \/ \E pass \in Passphrases : SetGlobalPassphrase(pass)
    \/ ProcessStarted
    \/ \E files \in ProfileContents : ProfileUsed(files)
    \/ \E k \in {1, SALT_LENGTH + 1, TagOffset + 1, TagOffset + AUTH_TAG_LENGTH,
                 TagOffset + AUTH_TAG_LENGTH + 1} : BackupAltered(k)
    \/ \E n \in {0, SALT_LENGTH, TagOffset + 1, TagOffset + AUTH_TAG_LENGTH} : BackupTruncated(n)
    \/ SaveProfileNotFound
    \/ SaveZip
    \/ SaveLocked
    \/ \E s \in RandomValues, v \in RandomValues : SaveStream(s, v)
    \/ SaveWrite
    \/ SaveWriteFailed
    \/ RestoreNotFound
    \/ RestoreRead
    \/ RestoreLocked
    \/ RestoreDecryptFailed
    \/ RestoreDecrypted
    \/ RestoreEmptyDir
    \/ RestoreExtract
    \/ \E data \in PlainData, p \in Passphrases, q \in Passphrases, s \in RandomValues,
          field \in HexFields \cup {"none"}, by \in {"digit", "nonhex"} :
            CryptoRoundTrip(data, p, q, s, s, field, by)

SpecVault == VaultInit /\ [][VaultNext]_vars

\* C40: once saveProfileToDisk has returned or thrown, the plaintext zip of the
\* profile is gone, and the backup file is the one that was there at the call
\* or a complete new backup.
C40_SaveLeavesNoPlaintext ==
    (vault.op = "save" /\ vault.pc = "idle" /\ vault.result # "none") =>
        /\ ~vault.zipFile.exists
        /\ \/ vault.encFile = vault.encAtCall
           \/ /\ vault.result = "ok"
              /\ vault.saved.valid
              /\ vault.encFile.exists
              /\ ExtractAll(DecipherBytes(DeriveKey(vault.saved.passphrase,
                                                    ParseSalt(vault.encFile.bytes)),
                                          ParseIv(vault.encFile.bytes),
                                          ParseEncrypted(vault.encFile.bytes))) = vault.saved.files

\* a call of the store has returned or thrown
Ended(op) == vault.op = op /\ vault.pc = "idle"

\* the backup is not what a save wrote under the passphrase now set
DecryptionMustFail ==
    /\ vault.globalPassphrase # NoPassphrase
    /\ \/ vault.altered # "no"
       \/ vault.globalPassphrase # vault.saved.passphrase

\* C18: restoring, under the passphrase it was saved with, an unaltered backup
\* reproduces the saved profile content exactly; restoring under another
\* passphrase, or a backup whose ciphertext or tag was altered, fails with an
\* authentication error and yields no content.  The same holds for
\* decryptWithPassphrase of encryptWithPassphrase.
C18_RoundTripOrAuthError ==
    /\ (Ended("restore") /\ vault.encAtCall.exists /\ vault.globalPassphrase # NoPassphrase) =>
          IF ~DecryptionMustFail
          THEN vault.result = "ok" /\ vault.userDataDir = Dir(vault.saved.files)
          ELSE IF vault.altered \in {"no", "tag", "ciphertext"}
          THEN vault.result = "auth" /\ vault.userDataDir = vault.dirAtCall
          ELSE TRUE
    /\ vault.op = "crypto" =>
          IF vault.args.q = vault.args.p /\ vault.args.field = "none"
          THEN vault.result = "ok" /\ vault.buffer = vault.args.data
          ELSE IF vault.args.field \in {"none", "authTag", "ciphertext"}
          THEN vault.result = "auth" /\ vault.buffer = <<>>
          ELSE TRUE

\* C18 witness: a restore has put the saved content over a profile directory
\* that held something else.
C18_Witness ==
    /\ Ended("restore") /\ vault.result = "ok"
    /\ vault.dirAtCall.exists
    /\ vault.dirAtCall # vault.userDataDir
    /\ vault.userDataDir = Dir(vault.saved.files)

\* C19: while a restore runs on a backup that cannot be decrypted (wrong
\* passphrase, altered or truncated backup) the profile directory stays as it
\* was at the call, and the restore ends in an error; the directory differs
\* from what it was at the call only after decryption has succeeded.
C19_RestoreAllOrNothing ==
    vault.op = "restore" =>
        /\ DecryptionMustFail =>
              /\ vault.userDataDir = vault.dirAtCall
              /\ vault.pc \in {"idle", "restoreRead"}
              /\ vault.pc = "idle" => vault.result \in {"auth", "format", "encNotFound"}
        /\ vault.userDataDir # vault.dirAtCall =>
              /\ ~DecryptionMustFail
              /\ vault.pc = "restoreEmptied" \/ vault.result = "ok"

\* C19 witness: a restore under the wrong passphrase has failed over an
\* existing profile directory.
C19_Witness ==
    /\ Ended("restore") /\ vault.result = "auth"
    /\ vault.altered = "no" /\ vault.saved.valid
    /\ vault.globalPassphrase # vault.saved.passphrase
    /\ vault.userDataDir.exists /\ vault.userDataDir = vault.dirAtCall

\* C20 as stated: every save or restore called while no passphrase is set
\* fails with the vault-locked error, the backup file and the profile
\* directory being what they were at the call.
C20_LockedCallFails ==
    ((Ended("save") \/ Ended("restore")) /\ vault.globalPassphrase = NoPassphrase) =>
        /\ vault.result = "locked"
        /\ vault.encFile = vault.encAtCall
        /\ vault.userDataDir = vault.dirAtCall

\* C20 amended: a save or restore called while no passphrase is set fails,
\* with the vault-locked error when the profile directory (save) or the backup
\* file (restore) exists and with the not-found error otherwise, and during
\* the whole call the backup file and the profile directory are what they
\* were at the call.
C20_LockedCallFailsWhenSourceExists ==
    (vault.op \in {"save", "restore"} /\ vault.globalPassphrase = NoPassphrase) =>
        /\ vault.encFile = vault.encAtCall
        /\ vault.userDataDir = vault.dirAtCall
        /\ Ended("save") =>
              vault.result = IF vault.dirAtCall.exists THEN "locked" ELSE "profileNotFound"
        /\ Ended("restore") =>
              vault.result = IF vault.encAtCall.exists THEN "locked" ELSE "encNotFound"

\* C20 witness: with a backup on disk and no passphrase set, a restore has
\* failed with the vault-locked error.
C20_Witness ==
    /\ Ended("restore") /\ vault.globalPassphrase = NoPassphrase
    /\ vault.result = "locked"
    /\ vault.encFile.exists /\ vault.userDataDir.exists

(***************************************************************************)
(* extractAndSaveCookies (cookies.ts): the polling loop, the check and the *)
(* write.  A cookie list is represented by its length.                     *)
(***************************************************************************)
PollAttempts == 5
EnoughCookies == 5

\* the lengths context.cookies() may return
CookieCounts == {0, 3, 6}

ExtractFrame == UNCHANGED <<storeVars, regVars, loginVars, otp, cloud, call, vault, fp, sweep, check, probe>>

ExtractInit ==
    /\ StoreIdle /\ RegIdle /\ LoginIdle
    /\ otp = <<>> /\ cloud = <<>> /\ call = <<>> /\ vault = <<>>
    /\ fp = <<>> /\ sweep = <<>> /\ check = <<>> /\ probe = <<>>
    /\ \E onDisk \in {-1, 3} :
        jar = [pc |-> "idle", i |-> 0, cookies |-> 0, seen |-> <<>>,
               result |-> "none", returned |-> 0, file |-> onDisk, pushes |-> 0]

\* await ensureCookiesDir(); let cookies = []; for (let i = 0; ...
ExtractStart ==
    /\ jar.pc = "idle"
    /\ jar' = [jar EXCEPT !.pc = "poll", !.i = 0, !.cookies = 0]
    /\ ExtractFrame

\* cookies = await context.cookies(); if (cookies.length > 5) break
ExtractPoll(n) ==
    /\ jar.pc = "poll"
    /\ jar' = [jar EXCEPT !.cookies = n, !.seen = Append(@, n),
                          !.pc = IF n > EnoughCookies THEN "check" ELSE "wait"]
    /\ ExtractFrame

\* context.cookies() rejects: the call rejects with that error
ExtractPollThrew ==
    /\ jar.pc = "poll"
    /\ jar' = [jar EXCEPT !.pc = "done", !.result = "threw"]
    /\ ExtractFrame

\* await new Promise(r => setTimeout(r, 1000)); i++
ExtractWait ==
    /\ jar.pc = "wait"
    /\ jar' = [jar EXCEPT !.i = @ + 1,
                          !.pc = IF jar.i + 1 < PollAttempts THEN "poll" ELSE "check"]
    /\ ExtractFrame

\* if (cookies.length === 0) throw
NoCookies(j) == j.cookies = 0

ExtractCheck ==
    /\ jar.pc = "check"
    /\ jar' = IF NoCookies(jar)
              THEN [jar EXCEPT !.pc = "done", !.result = "noCookies"]
              ELSE [jar EXCEPT !.pc = "write"]
    /\ ExtractFrame

\* await fs.writeJSON(cookieFile, cookies); pushCookies(id, platform); return cookies
ExtractWrite ==
    /\ jar.pc = "write"
    /\ jar' = [jar EXCEPT !.pc = "done", !.result = "ok", !.file = jar.cookies,
                          !.pushes = @ + 1, !.returned = jar.cookies]
    /\ ExtractFrame

\* fs.writeJSON rejects
ExtractWriteFailed ==
    /\ jar.pc = "write"
    /\ jar' = [jar EXCEPT !.pc = "done", !.result = "threw"]
    /\ ExtractFrame

ExtractNext ==
    \/ ExtractStart
    \/ \E n \in CookieCounts : ExtractPoll(n)
    \/ ExtractPollThrew
    \/ ExtractWait
    \/ ExtractCheck
    \/ ExtractWrite
    \/ ExtractWriteFailed

SpecExtract == ExtractInit /\ [][ExtractNext]_vars

\* C21: an extractAndSaveCookies call that met no input or output failure
\* ends with the insufficient-cookies error exactly when every polling
\* attempt observed zero cookies, and otherwise has saved and returned a
\* non-empty cookie list.
C21_ThrowsIffEveryAttemptEmpty ==
    (jar.pc = "done" /\ jar.result \in {"noCookies", "ok"}) =>
        /\ jar.result = "noCookies" <=> \A k \in DOMAIN jar.seen : jar.seen[k] = 0
        /\ jar.result = "ok" => jar.returned > 0 /\ jar.file = jar.returned

(***************************************************************************)
(* adaptCookiesForShopsy and injectFlipkartCookiesIntoShopsy (cookies.ts). *)
(* A domain is a sequence of pieces of text; objects live in a heap and    *)
(* arrays hold references to them.                                         *)
(***************************************************************************)
MaxCookies == 2

FlipkartCom == <<"flipkart", ".com">>
ShopsyIn == <<".", "shopsy", ".in">>

CookieDomains ==
    { <<"www.", "flipkart", ".com">>, <<".", "flipkart", ".com">>, <<"flipkart", ".com">>,
      <<"flipkart", ".com", ".evil", ".org">>, <<"www.", "google", ".com">>, ShopsyIn }

\* str.includes(search)
Includes(str, search) ==
    \E i \in 0..(Len(str) - Len(search)) :
        \A k \in 1..Len(search) : str[i + k] = search[k]

\* str.endsWith(search)
EndsWith(str, search) ==
    /\ Len(search) <= Len(str)
    /\ \A k \in 1..Len(search) : str[Len(str) - Len(search) + k] = search[k]

\* a cookie object: name, value and domain, with or without the two flags
CookieObject(domain, flags) ==
    [a \in {"name", "value", "domain"} \cup flags |->
        IF a = "domain" THEN domain ELSE IF a \in {"name", "value"} THEN <<a>> ELSE <<"true">>]

CookieObjects == { CookieObject(d, f) : d \in CookieDomains, f \in SUBSET {"hostOnly", "session"} }

CookieArrays == UNION { [1..n -> CookieObjects] : n \in 0..MaxCookies }

\* delete obj[a]
Delete(obj, a) == [b \in DOMAIN obj \ {a} |-> obj[b]]

\* obj[a] = v
Assign(obj, a, v) == [b \in DOMAIN obj \cup {a} |-> IF b = a THEN v ELSE obj[b]]

\* the map callback working on its argument itself
SameObject(heap, c) == c

\* const newCookie = { ...c }: a new object
SpreadCopy(heap, c) == Len(heap) + 1

\* the body of the map callback, on the object c refers to
Adapted(c) ==
    LET stripped == Delete(Delete(c, "hostOnly"), "session")
    IN  IF Includes(c.domain, FlipkartCom) THEN Assign(stripped, "domain", ShopsyIn)
        ELSE stripped

AdaptFrame == UNCHANGED <<storeVars, regVars, loginVars, otp, cloud, call, vault, fp, sweep, check, probe>>

AdaptInit ==
    /\ StoreIdle /\ RegIdle /\ LoginIdle
    /\ otp = <<>> /\ cloud = <<>> /\ call = <<>> /\ vault = <<>>
    /\ fp = <<>> /\ sweep = <<>> /\ check = <<>> /\ probe = <<>>
    /\ \E stored \in CookieArrays, exists \in BOOLEAN :
        jar = [pc |-> "idle", op |-> "none",
               fileExists |-> exists, file |-> stored, given |-> stored,
               heap |-> <<>>, cookies |-> <<>>, out |-> <<>>, k |-> 0,
               injected |-> <<>>, result |-> "none"]

\* adaptCookiesForShopsy(cookies) called with an array in memory
AdaptCall ==
    /\ jar.pc = "idle" /\ jar.op = "none"
    /\ jar' = [jar EXCEPT !.pc = "map", !.op = "adapt", !.heap = jar.given,
                          !.cookies = [i \in 1..Len(jar.given) |-> i], !.k = 1]
    /\ AdaptFrame

\* injectFlipkartCookiesIntoShopsy: if (!await fs.pathExists(file)) return false
InjectNoFile ==
    /\ jar.pc = "idle" /\ jar.op = "none"
    /\ ~jar.fileExists
    /\ jar' = [jar EXCEPT !.op = "inject", !.result = "false"]
    /\ AdaptFrame

\* flipkartCookies = await fs.readJSON(file); adaptCookiesForShopsy(flipkartCookies)
InjectRead ==
    /\ jar.pc = "idle" /\ jar.op = "none"
    /\ jar.fileExists
    /\ jar' = [jar EXCEPT !.pc = "map", !.op = "inject", !.heap = jar.file,
                          !.cookies = [i \in 1..Len(jar.file) |-> i], !.k = 1]
    /\ AdaptFrame

\* one call of the map callback
AdaptCookie ==
    /\ jar.pc = "map" /\ jar.k <= Len(jar.cookies)
    /\ LET c == jar.cookies[jar.k]
           newCookie == SpreadCopy(jar.heap, c)
           obj == Adapted(jar.heap[c])
       IN  jar' = [jar EXCEPT
                !.heap = IF newCookie > Len(jar.heap) THEN Append(jar.heap, obj)
                         ELSE [jar.heap EXCEPT ![newCookie] = obj],
                !.out = Append(@, newCookie), !.k = @ + 1]
    /\ AdaptFrame

\* map returns the new array
AdaptReturn ==
    /\ jar.pc = "map" /\ jar.k > Len(jar.cookies)
    /\ jar' = IF jar.op = "adapt" THEN [jar EXCEPT !.pc = "idle", !.result = "returned"]
              ELSE [jar EXCEPT !.pc = "add"]
    /\ AdaptFrame

\* await context.addCookies(shopsyCookies); return true
InjectAdd ==
    /\ jar.pc = "add"
    /\ jar' = [jar EXCEPT !.pc = "idle", !.result = "true",
                          !.injected = [i \in 1..Len(jar.out) |-> jar.heap[jar.out[i]]]]
    /\ AdaptFrame

\* context.addCookies rejects
InjectAddThrew ==
    /\ jar.pc = "add"
    /\ jar' = [jar EXCEPT !.pc = "idle", !.result = "threw"]
    /\ AdaptFrame

AdaptNext ==
    \/ AdaptCall
    \/ InjectNoFile
    \/ InjectRead
    \/ AdaptCookie
    \/ AdaptReturn
    \/ InjectAdd
    \/ InjectAddThrew

SpecAdapt == AdaptInit /\ [][AdaptNext]_vars

\* the array a finished call was given, and the cookie objects it returned
AdaptGiven == IF jar.op = "inject" THEN jar.file ELSE jar.given
AdaptDone == jar.op \in {"adapt", "inject"} /\ jar.pc \in {"idle", "add"} /\ jar.result # "false"
AdaptResult == [i \in 1..Len(jar.out) |-> jar.heap[jar.out[i]]]

\* C22: in the array adaptCookiesForShopsy returns, cookie i has domain
\* .shopsy.in exactly when the domain of input cookie i ends with
\* flipkart.com, and every other cookie is the input cookie without its
\* hostOnly and session flags.
C22_RewritesExactlySourceSuffix ==
    AdaptDone =>
        /\ Len(jar.out) = Len(AdaptGiven)
        /\ \A i \in 1..Len(jar.out) :
            LET c == AdaptGiven[i]
                r == AdaptResult[i]
                stripped == Delete(Delete(c, "hostOnly"), "session")
            IN  IF EndsWith(c.domain, FlipkartCom)
                THEN r = Assign(stripped, "domain", ShopsyIn)
                ELSE r = stripped

\* C23: during and after adaptCookiesForShopsy the array it was given holds
\* the same objects with the same attributes as at the call, and the stored
\* flipkart cookie file is what it was before injectFlipkartCookiesIntoShopsy.
C23_InputNotMutated ==
    /\ jar.op \in {"adapt", "inject"} /\ jar.result # "false" =>
          /\ jar.cookies = [i \in 1..Len(AdaptGiven) |-> i]
          /\ \A i \in 1..Len(jar.cookies) : jar.heap[jar.cookies[i]] = AdaptGiven[i]
    /\ jar.file = jar.given

\* C23 witness: a call has returned a rewritten cookie, without flags, for an
\* input cookie that carries both flags and a flipkart domain.
C23_Witness ==
    /\ AdaptDone /\ jar.pc = "idle" /\ Len(jar.out) = MaxCookies
    /\ \E i \in 1..Len(jar.out) :
        /\ {"hostOnly", "session"} \subseteq DOMAIN AdaptGiven[i]
        /\ Includes(AdaptGiven[i].domain, FlipkartCom)
        /\ AdaptResult[i].domain = ShopsyIn
        /\ "hostOnly" \notin DOMAIN AdaptResult[i]

(***************************************************************************)
(* generateFingerprint (fingerprint.ts): two calls, each with its loop.    *)
(***************************************************************************)
MaxSeedLen == 2

DesktopUserAgents == <<"Windows Chrome 120", "Macintosh Chrome 120", "Windows Firefox 115">>
MobileDevices == <<"Pixel 5", "Pixel 7", "Samsung Galaxy S20 Ultra", "iPhone 12">>

SeedChars == {"a", "d", "e"}
Seeds == UNION { [1..n -> SeedChars] : n \in 0..MaxSeedLen }

\* seed.charCodeAt(i)
CharCodeAt(seed, i) ==
    IF seed[i + 1] = "a" THEN 97 ELSE IF seed[i + 1] = "d" THEN 100
    ELSE IF seed[i + 1] = "A" THEN 65 ELSE IF seed[i + 1] = " " THEN 32 ELSE 101

\* a loop body that keeps the last character code
KeepLast(sum, code) == code

\* sum += seed.charCodeAt(i)
Accumulate(sum, code) == sum + code

\* the object returned for a platform and a pool index
FingerprintAt(platform, index) ==
    IF platform = "shopsy"
    THEN [device |-> MobileDevices[index + 1], userAgent |-> "of device",
          viewport |-> "of device", locale |-> "en-IN", timezoneId |-> "Asia/Kolkata"]
    ELSE [device |-> "desktop", userAgent |-> DesktopUserAgents[index + 1],
          viewport |-> "1920x1080", locale |-> "en-IN", timezoneId |-> "Asia/Kolkata"]

NoFingerprint ==
    [device |-> "", userAgent |-> "", viewport |-> "", locale |-> "", timezoneId |-> ""]

FpCalls == {1, 2}

FpFrame == UNCHANGED <<storeVars, regVars, loginVars, otp, cloud, call, vault, jar, sweep, check, probe>>

FpInit ==
    /\ StoreIdle /\ RegIdle /\ LoginIdle
    /\ otp = <<>> /\ cloud = <<>> /\ call = <<>> /\ vault = <<>>
    /\ jar = <<>> /\ sweep = <<>> /\ check = <<>> /\ probe = <<>>
    /\ \E platforms \in [FpCalls -> Platforms], seeds \in [FpCalls -> Seeds] :
        fp = [c \in FpCalls |->
                [platform |-> platforms[c], seed |-> seeds[c], pc |-> "idle",
                 i |-> 0, sum |-> 0, fingerprint |-> NoFingerprint]]

\* generateFingerprint(platform, seed): let sum = 0
FpCall(c) ==
    /\ fp[c].pc = "idle"
    /\ fp' = [fp EXCEPT ![c].pc = "loop", ![c].i = 0, ![c].sum = 0]
    /\ FpFrame

\* for (let i = 0; i < seed.length; i++) sum += seed.charCodeAt(i)
FpLoop(c) ==
    /\ fp[c].pc = "loop"
    /\ fp[c].i < Len(fp[c].seed)
    /\ fp' = [fp EXCEPT ![c].sum = Accumulate(@, CharCodeAt(fp[c].seed, fp[c].i)),
                        ![c].i = @ + 1]
    /\ FpFrame

\* sum % MOBILE_DEVICES.length or sum % DESKTOP_USER_AGENTS.length; return
FpReturn(c) ==
    /\ fp[c].pc = "loop"
    /\ fp[c].i >= Len(fp[c].seed)
    /\ LET index == IF fp[c].platform = "shopsy" THEN fp[c].sum % Len(MobileDevices)
                    ELSE fp[c].sum % Len(DesktopUserAgents)
       IN  fp' = [fp EXCEPT ![c].pc = "done",
                            ![c].fingerprint = FingerprintAt(fp[c].platform, index)]
    /\ FpFrame

FpNext ==
    \/ \E c \in FpCalls : FpCall(c)
    \/ \E c \in FpCalls : FpLoop(c)
    \/ \E c \in FpCalls : FpReturn(c)

SpecFp == FpInit /\ [][FpNext]_vars

\* the sum of the character codes of a seed
RECURSIVE SeedSum(_)
SeedSum(seed) ==
    IF Len(seed) = 0 THEN 0
    ELSE SeedSum(SubSeq(seed, 1, Len(seed) - 1)) + CharCodeAt(seed, Len(seed) - 1)

PoolSize(platform) == IF platform = "shopsy" THEN 4 ELSE 3

\* C25: the fingerprint a call returns is the pool entry at (sum of the seed's
\* character codes) mod (pool size of the platform); two calls with equal
\* platform and seed return equal fingerprints, and so do two calls on one
\* platform whose seeds' sums differ by a multiple of its pool size.
C25_FingerprintBySeedSum ==
    /\ \A c \in FpCalls : fp[c].pc = "done" =>
          fp[c].fingerprint =
              FingerprintAt(fp[c].platform, SeedSum(fp[c].seed) % PoolSize(fp[c].platform))
    /\ (fp[1].pc = "done" /\ fp[2].pc = "done" /\ fp[1].platform = fp[2].platform) =>
          /\ fp[1].seed = fp[2].seed => fp[1].fingerprint = fp[2].fingerprint
          /\ (SeedSum(fp[1].seed) + PoolSize(fp[1].platform) * SeedSum(fp[2].seed)
                  - SeedSum(fp[2].seed)) % PoolSize(fp[1].platform) = 0
                => fp[1].fingerprint = fp[2].fingerprint

\* C25 witness: two shopsy calls with different seeds of two characters whose
\* sums differ by the pool size have returned the same fingerprint.
C25_Witness ==
    /\ fp[1].pc = "done" /\ fp[2].pc = "done"
    /\ fp[1].platform = "shopsy" /\ fp[2].platform = "shopsy"
    /\ Len(fp[1].seed) = MaxSeedLen /\ Len(fp[2].seed) = MaxSeedLen
    /\ SeedSum(fp[1].seed) = SeedSum(fp[2].seed) + PoolSize("shopsy")
    /\ fp[1].fingerprint = fp[2].fingerprint

(***************************************************************************)
(* The batch health sweeps: the check command of cli.ts and the            *)
(* check-all-health handler of the main process.                           *)
(***************************************************************************)
MaxSweep == 2

SweepIds == {"a", "b"}
SweepLists == UNION { [1..n -> SweepIds] : n \in 0..MaxSweep }

\* what a checkAccountHealth call can end with: the four statuses it returns,
\* or the rejection of fs.pathExists, which it does not catch
ProbeOutcomes == {"Healthy", "ActionNeeded", "Error", "MISSING_PROFILE", "threw"}

\* results.filter(r => r.status === wanted).length
CountStatus(results, wanted) ==
    Cardinality({i \in 1..Len(results) : results[i].status = wanted})

SweepFrame == UNCHANGED <<storeVars, regVars, loginVars, otp, cloud, call, vault, jar, fp, check, probe>>

SweepInit ==
    /\ StoreIdle /\ RegIdle /\ LoginIdle
    /\ otp = <<>> /\ cloud = <<>> /\ call = <<>> /\ vault = <<>>
    /\ jar = <<>> /\ fp = <<>> /\ check = <<>> /\ probe = <<>>
    /\ \E ids \in SweepLists, op \in {"cli", "ipc"} :
        sweep = [op |-> op, pc |-> "idle", ids |-> ids, pos |-> 0,
                 visited |-> <<>>, probes |-> <<>>, results |-> <<>>,
                 summary |-> [healthy |-> -1, needsRefresh |-> -1, error |-> -1],
                 returned |-> "none"]

\* for (const id of accountIds) / for (const acc of accounts): the next element, or the end
SweepAdvance(sw) ==
    IF sw.pos < Len(sw.ids)
    THEN [sw EXCEPT !.pos = @ + 1, !.visited = Append(@, sw.ids[sw.pos + 1]),
                    !.pc = IF sw.op = "cli" THEN "getAccount" ELSE "probe"]
    ELSE [sw EXCEPT !.pc = "summary"]

\* the command or the handler is invoked: the list is taken, the loop entered
SweepStart ==
    /\ sweep.pc = "idle" /\ sweep.returned = "none"
    /\ sweep' = SweepAdvance(sweep)
    /\ SweepFrame

\* check-all-health: loadAccounts() rejects, safeIpc returns { success: false }
SweepLoadRejected ==
    /\ sweep.pc = "idle" /\ sweep.returned = "none" /\ sweep.op = "ipc"
    /\ sweep' = [sweep EXCEPT !.returned = "failure"]
    /\ SweepFrame

\* check: const account = await getAccount(id); if (!account) continue
SweepAccountNotFound ==
    /\ sweep.pc = "getAccount"
    /\ sweep' = SweepAdvance(sweep)
    /\ SweepFrame

\* check: getAccount(id) finds the account
SweepAccountFound ==
    /\ sweep.pc = "getAccount"
    /\ sweep' = [sweep EXCEPT !.pc = "probe"]
    /\ SweepFrame

\* check: getAccount(id) rejects, outside the try: the action rejects
SweepGetAccountRejected ==
    /\ sweep.pc = "getAccount"
    /\ sweep' = [sweep EXCEPT !.pc = "idle", !.returned = "threw"]
    /\ SweepFrame

\* the status pushed for a probe that returned or threw
\* (results.push({ id, ...health }) / results.push({ id, status: 'ERROR' }))
PushedStatus(outcome) == IF outcome = "threw" THEN "ERROR" ELSE outcome

\* await checkAccountHealth(platform, id) settles, inside try / catch
SweepProbe(outcome) ==
    /\ sweep.pc = "probe"
    /\ LET id == sweep.ids[sweep.pos]
           sw == [sweep EXCEPT
                    !.probes = Append(@, [id |-> id, outcome |-> outcome]),
                    !.results = IF sweep.op = "cli"
                                THEN Append(@, [id |-> id, status |-> PushedStatus(outcome)])
                                ELSE @]
       IN  sweep' = SweepAdvance(sw)
    /\ SweepFrame

\* the status the summary counts as healthy
HealthyStatus == "HEALTHY"

\* check: the three counts printed; check-all-health: return { success: true }
SweepSummary ==
    /\ sweep.pc = "summary"
    /\ sweep' = IF sweep.op = "cli"
                THEN LET healthy == CountStatus(sweep.results, HealthyStatus)
                         needsRefresh == CountStatus(sweep.results, "NEEDS_REFRESH")
                     IN  [sweep EXCEPT !.pc = "idle", !.returned = "done",
                            !.summary = [healthy |-> healthy, needsRefresh |-> needsRefresh,
                                         error |-> Len(sweep.results) - healthy - needsRefresh]]
                ELSE [sweep EXCEPT !.pc = "idle", !.returned = "success"]
    /\ SweepFrame

SweepNext ==
    \/ SweepStart
    \/ SweepLoadRejected
    \/ SweepAccountNotFound
    \/ SweepAccountFound
    \/ SweepGetAccountRejected
    \/ \E outcome \in ProbeOutcomes : SweepProbe(outcome)
    \/ SweepSummary

SpecSweep == SweepInit /\ [][SweepNext]_vars

ProbesWith(outcomes) ==
    Cardinality({i \in 1..Len(sweep.probes) : sweep.probes[i].outcome \in outcomes})

\* C26: a sweep that has ended has visited every listed account exactly once,
\* in order, whatever the single probes ended with, and the summary of the
\* check command counts as healthy the accounts whose probe returned Healthy
\* and as errors the accounts whose probe failed.
C26_SweepSummaryAgrees ==
    (sweep.pc = "idle" /\ sweep.returned \in {"done", "success"}) =>
        /\ sweep.visited = sweep.ids
        /\ sweep.op = "cli" =>
              /\ sweep.summary.healthy = ProbesWith({"Healthy"})
              /\ sweep.summary.error = ProbesWith({"Error", "threw"})

(***************************************************************************)
(* The logged-in check that follows the navigation in loginFlipkart and    *)
(* loginShopsy: waitForSelector calls of 3000 ms raced against a timer of  *)
(* 3500 ms, and the branch taken on the outcome.                           *)
(***************************************************************************)
SignalTimeout == 3000
FallbackTimeout == 3500
Instants == <<0, SignalTimeout, FallbackTimeout>>

LoggedInSignals(platform) ==
    IF platform = "flipkart" THEN {"My Profile", "Logout", "Orders", "_28p97w"} ELSE {"Account"}

CheckFrame == UNCHANGED <<storeVars, regVars, loginVars, otp, cloud, call, vault, jar, fp, sweep, probe>>

\* after page.goto: the page shows some of the signals or none; keepOpen is an
\* option of loginFlipkart only
CheckInit ==
    /\ StoreIdle /\ RegIdle /\ LoginIdle
    /\ otp = <<>> /\ cloud = <<>> /\ call = <<>> /\ vault = <<>>
    /\ jar = <<>> /\ fp = <<>> /\ sweep = <<>> /\ probe = <<>>
    /\ \E platform \in {"flipkart", "shopsy"}, keepOpen \in BOOLEAN :
       \E present \in SUBSET LoggedInSignals(platform) :
        /\ platform = "shopsy" => ~keepOpen
        /\ check = [platform |-> platform, keepOpen |-> keepOpen, present |-> present,
                    pc |-> "race", at |-> 1, by |-> "none", winner |-> "none",
                    isLoggedIn |-> "unset", result |-> "none", msg |-> "none",
                    status |-> "unchanged", ctx |-> "open", submitted |-> FALSE]

\* what a contender of the race settles with when its waitForSelector rejects:
\* loginFlipkart chains .catch(() => false), loginShopsy chains nothing
SignalRejected(platform) == IF platform = "flipkart" THEN "false" ELSE "rejected"

\* the race settles with its first settled contender and the function goes on:
\* a rejection is caught by the catch block (updateAccountStatus Error, close,
\* rethrow); loginFlipkart returns on a true value; everything else falls
\* through to the credential steps
AfterRace(outcome, by, winner, ctx) ==
    LET settled == [check EXCEPT !.isLoggedIn = outcome, !.by = by, !.winner = winner, !.ctx = ctx]
    IN  IF outcome = "rejected"
        THEN [settled EXCEPT !.pc = "done", !.result = "threw", !.status = "Error", !.ctx = "closed"]
        ELSE IF outcome = "true" /\ check.platform = "flipkart"
        THEN [settled EXCEPT !.pc = "done", !.result = "success", !.msg = "Already logged in",
                             !.ctx = IF check.keepOpen THEN ctx ELSE "closed"]
        ELSE [settled EXCEPT !.pc = "credential"]

\* a signal the page shows is found: .then(() => true)
CheckSignalSeen(s) ==
    /\ check.pc = "race" /\ Instants[check.at] < SignalTimeout
    /\ s \in check.present
    /\ check' = AfterRace("true", "signal", s, "open")
    /\ CheckFrame

\* time passes; a signal the page shows is found before any time-out
CheckTick ==
    /\ check.pc = "race" /\ check.at < Len(Instants)
    /\ check.present = {}
    /\ check' = [check EXCEPT !.at = @ + 1]
    /\ CheckFrame

\* a waitForSelector call gives up after its 3000 ms
CheckSignalTimedOut(s) ==
    /\ check.pc = "race" /\ Instants[check.at] >= SignalTimeout
    /\ s \in LoggedInSignals(check.platform) \ check.present
    /\ check' = AfterRace(SignalRejected(check.platform), "timeout", s, "open")
    /\ CheckFrame

\* the timer of 3500 ms resolves false
CheckTimerFired ==
    /\ check.pc = "race" /\ Instants[check.at] >= FallbackTimeout
    /\ check' = AfterRace("false", "timer", "none", "open")
    /\ CheckFrame

\* the window is closed during the check: every pending waitForSelector rejects
CheckPageClosed ==
    /\ check.pc = "race"
    /\ \E s \in LoggedInSignals(check.platform) \ check.present :
        check' = AfterRace(SignalRejected(check.platform), "closed", s, "closed")
    /\ CheckFrame

\* the credential steps: the identifier is filled in and submitted
CheckEnterIdentifier ==
    /\ check.pc = "credential" /\ check.ctx = "open"
    /\ check' = [check EXCEPT !.pc = "passcode", !.submitted = TRUE]
    /\ CheckFrame

\* the first unguarded page operation of a closed window throws: loginFlipkart
\* returns cancelled, loginShopsy records Error and rethrows
CheckCredentialThrew ==
    /\ check.pc = "credential" /\ check.ctx = "closed"
    /\ check' = IF check.platform = "flipkart"
                THEN [check EXCEPT !.pc = "done", !.result = "cancelled"]
                ELSE [check EXCEPT !.pc = "done", !.result = "threw", !.status = "Error"]
    /\ CheckFrame

CheckNext ==
    \/ \E s \in LoggedInSignals("flipkart") \cup LoggedInSignals("shopsy") : CheckSignalSeen(s)
    \/ CheckTick
    \/ \E s \in LoggedInSignals("flipkart") \cup LoggedInSignals("shopsy") : CheckSignalTimedOut(s)
    \/ CheckTimerFired
    \/ CheckPageClosed
    \/ CheckEnterIdentifier
    \/ CheckCredentialThrew

SpecCheck == CheckInit /\ [][CheckNext]_vars

\* C28: on either platform the logged-in check has two outcomes: when a
\* signal was seen the call returned success without submitting an
\* identifier, and when none was seen (a selector timed out or the timer
\* fired) the run went to the credential steps and was not failed.
C28_CheckHasTwoOutcomes ==
    /\ check.by = "signal" =>
        /\ check.pc = "done" /\ check.result = "success" /\ ~check.submitted
    /\ check.by \in {"timeout", "timer"} =>
        /\ check.pc \in {"credential", "passcode"}
        /\ check.status = "unchanged"

(***************************************************************************)
(* The live-session check of checkAccountHealth against the registry:      *)
(* contexts of several accounts are registered and closed, and the check   *)
(* is asked about one account.                                             *)
(***************************************************************************)
MaxRegistered == 2

\* account ids, one of them a prefix of another
SkipIds == {"a", "ab", "b"}

SkipKeys ==
    {LoginKey(a, p) : a \in SkipIds, p \in Platforms}
        \cup {HealthKey(p, a) : p \in Platforms, a \in SkipIds}

NotAsked == [id |-> "", skipped |-> FALSE]

SkipFrame == UNCHANGED <<storeVars, ctxState, regKey, latest, closeAllPc, iterPos, closing, closeLog,
                         loginVars, otp, cloud, call, vault, jar, fp, sweep, check>>

SkipInit ==
    /\ StoreIdle /\ RegIdle /\ LoginIdle
    /\ otp = <<>> /\ cloud = <<>> /\ call = <<>> /\ vault = <<>>
    /\ jar = <<>> /\ fp = <<>> /\ sweep = <<>> /\ check = <<>>
    /\ probe = NotAsked

\* a login or a probe registers the context it launched
SkipRegister(k) ==
    /\ Len(contexts) < MaxRegistered
    /\ KeyIndex(contexts, k) = 0
    /\ contexts' = MapSet(contexts, k, Len(contexts) + 1)
    /\ probe' = NotAsked
    /\ SkipFrame

\* a registered context closes: its listener deletes its key
SkipClosed(k) ==
    /\ KeyIndex(contexts, k) > 0
    /\ contexts' = MapDelete(contexts, k)
    /\ probe' = NotAsked
    /\ SkipFrame

\* checkAccountHealth(platform, accountId) makes its check; the platform does not enter it
SkipCheck(accountId) ==
    /\ probe = NotAsked
    /\ probe' = [id |-> accountId, skipped |-> SessionActive(accountId)]
    /\ UNCHANGED contexts
    /\ SkipFrame

SkipNext ==
    \/ \E k \in SkipKeys : SkipRegister(k)
    \/ \E k \in SkipKeys : SkipClosed(k)
    \/ \E a \in SkipIds : SkipCheck(a)

SpecSkip == SkipInit /\ [][SkipNext]_vars

\* C38: the probe of an account is skipped only when a context registered
\* for that same account is in the registry.
C38_SkippedOnlyByOwnContexts ==
    probe.skipped => \E n \in 1..Len(contexts) : contexts[n].key[2] = probe.id

(***************************************************************************)
(* The spellings of one account id as the login functions, the probe and   *)
(* the vault use them: the directory of the profile and the seed of the    *)
(* fingerprint.                                                            *)
(***************************************************************************)
MaxSpellOps == 2

\* the characters of a spelling
SpellingChars(accountId) ==
    IF accountId = "a" THEN <<"a">>
    ELSE IF accountId = "A" THEN <<"A">>
    ELSE <<" ", "a">>

\* generateFingerprint(platform, seed)
GenerateFingerprint(platform, seed) ==
    FingerprintAt(platform,
                  SeedSum(seed) % (IF platform = "shopsy" THEN Len(MobileDevices)
                                   ELSE Len(DesktopUserAgents)))

\* path.join(PROFILES_DIR, platform, accountId, 'userDataDir') in loginFlipkart,
\* loginShopsy and checkAccountHealth
ProfileDirOf(platform, accountId) == <<platform, accountId>>

\* id = accountId.toLowerCase().trim(); path.join(PROFILES_DIR, platform, id, 'userDataDir')
VaultDirOf(platform, accountId) == <<platform, NormalizeId(accountId)>>

\* two paths name one directory: on a file system that ignores letter case,
\* they may differ in case
SamePath(p, q, caseSensitive) ==
    IF caseSensitive THEN p = q ELSE p[1] = q[1] /\ ToLowerCase(p[2]) = ToLowerCase(q[2])

DirExists(dirs, p, caseSensitive) == \E q \in dirs : SamePath(p, q, caseSensitive)

SpellFrame == UNCHANGED <<storeVars, regVars, loginVars, otp, cloud, call, vault, jar, sweep,
                          check, probe>>

SpellInit ==
    /\ StoreIdle /\ RegIdle /\ LoginIdle
    /\ otp = <<>> /\ cloud = <<>> /\ call = <<>> /\ vault = <<>>
    /\ jar = <<>> /\ sweep = <<>> /\ check = <<>> /\ probe = <<>>
    /\ \E caseSensitive \in BOOLEAN :
        fp = [caseSensitive |-> caseSensitive, dirs |-> {}, log |-> <<>>]

Logged(op, platform, accountId, dir, fingerprint, found) ==
    Append(fp.log, [op |-> op, platform |-> platform, id |-> accountId, dir |-> dir,
                    fingerprint |-> fingerprint, found |-> found])

\* loginFlipkart / loginShopsy: the persistent context is launched on the directory
SpellLogin(platform, accountId) ==
    /\ Len(fp.log) < MaxSpellOps
    /\ LET dir == ProfileDirOf(platform, accountId)
       IN  fp' = [fp EXCEPT
                    !.dirs = IF DirExists(@, dir, fp.caseSensitive) THEN @ ELSE @ \cup {dir},
                    !.log = Logged("login", platform, accountId, dir,
                                   GenerateFingerprint(platform, SpellingChars(accountId)), TRUE)]
    /\ SpellFrame

\* checkAccountHealth: MISSING_PROFILE unless the directory exists
SpellHealth(platform, accountId) ==
    /\ Len(fp.log) < MaxSpellOps
    /\ LET dir == ProfileDirOf(platform, accountId)
       IN  fp' = [fp EXCEPT
                    !.log = Logged("health", platform, accountId, dir,
                                   GenerateFingerprint(platform, SpellingChars(accountId)),
                                   DirExists(fp.dirs, dir, fp.caseSensitive))]
    /\ SpellFrame

\* saveProfileToDisk: 'Profile not found' unless the directory exists
SpellSave(platform, accountId) ==
    /\ Len(fp.log) < MaxSpellOps
    /\ LET dir == VaultDirOf(platform, accountId)
       IN  fp' = [fp EXCEPT
                    !.log = Logged("save", platform, accountId, dir, NoFingerprint,
                                   DirExists(fp.dirs, dir, fp.caseSensitive))]
    /\ SpellFrame

SpellNext ==
    \/ \E platform \in Platforms, accountId \in Spellings : SpellLogin(platform, accountId)
    \/ \E platform \in Platforms, accountId \in Spellings : SpellHealth(platform, accountId)
    \/ \E platform \in Platforms, accountId \in Spellings : SpellSave(platform, accountId)

SpecSpell == SpellInit /\ [][SpellNext]_vars

\* C39: two operations on one platform whose account ids are equal up to
\* letter case and surrounding blanks use the same profile directory, and,
\* where both launch a browser, the same fingerprint; so the profile a login
\* wrote is found by the save and the probe that follow it.
C39_SpellingsShareProfile ==
    \A m, n \in 1..Len(fp.log) :
        (/\ m < n
         /\ fp.log[m].platform = fp.log[n].platform
         /\ NormalizeId(fp.log[m].id) = NormalizeId(fp.log[n].id)) =>
            /\ SamePath(fp.log[m].dir, fp.log[n].dir, fp.caseSensitive)
            /\ (fp.log[m].op # "save" /\ fp.log[n].op # "save") =>
                    fp.log[m].fingerprint = fp.log[n].fingerprint
            /\ fp.log[m].op = "login" => fp.log[n].found

==============================================================================
